---- MODULE Spec2Model ----
(***************************************************************************)
(* A model of the example agents of part-1-Agentic-AI-foundations/code:    *)
(*   - BasicAgent (02-basic-agent-structure.py): goals, memory, tools and  *)
(*     the plan -> execute -> learn cycle;                                 *)
(*   - BudgetPlannerAgent (budget_planner_agent.py and                     *)
(*     04-specialized-agents.py): allocation and expense tracking;         *)
(*   - SimpleTravelAgent (03-simple-travel-agent.py): the scoring of       *)
(*     destinations and the planning cycle;                                *)
(*   - TripResearchAgent (trip_research_agent.py and                       *)
(*     04-specialized-agents.py): weather, attractions, budget insights    *)
(*     and the research report;                                            *)
(*   - ProductionTravelAgent (05-production-patterns.py): construction     *)
(*     with or without an executor, and plan_trip;                         *)
(*   - budget_analyzer_tool (05-production-patterns.py): the shares and    *)
(*     amounts of its analysis.                                            *)
(* Texts are Python strings.  The state holds them as names; Chars gives   *)
(* the characters of each, and str(), lower() and the `in` test on strings *)
(* are computed on the characters.                                         *)
(***************************************************************************)
EXTENDS Integers, Sequences, FiniteSets, TLC

VARIABLES goals, memory, tools, ret,
          variant, total_budget, allocated, spent, expenses, alerts, analyses,
          out,
          trip_goals, research_cache, state, current_recommendations, analysis,
          research_variant, research_goals, research_data, research_out,
          env_key, env_base, llm, agent_executor, current_goal, last_action, confidence, plan_out,
          pc, steps_completed, next_actions, research_log, final_plan,
          budget_result

agentVars == <<goals, memory, tools, ret>>
budgetVars == <<variant, total_budget, allocated, spent, expenses, alerts, analyses, out>>
travelVars == <<trip_goals, research_cache, state, current_recommendations, analysis>>
researchVars == <<research_variant, research_goals, research_data, research_out>>
productionVars == <<env_key, env_base, llm, agent_executor, current_goal, last_action, confidence, plan_out>>
cycleVars == <<pc, steps_completed, next_actions, research_log, final_plan>>
analyzerVars == <<budget_result>>
vars == <<goals, memory, tools, ret,
          variant, total_budget, allocated, spent, expenses, alerts, analyses, out,
          trip_goals, research_cache, state, current_recommendations, analysis,
          research_variant, research_goals, research_data, research_out,
          env_key, env_base, llm, agent_executor, current_goal, last_action, confidence, plan_out,
          pc, steps_completed, next_actions, research_log, final_plan,
          budget_result>>
besidesAgent == <<budgetVars, travelVars, researchVars, productionVars, cycleVars, analyzerVars>>
besidesBudget == <<agentVars, travelVars, researchVars, productionVars, cycleVars, analyzerVars>>
besidesTravel == <<agentVars, budgetVars, researchVars, productionVars, cycleVars, analyzerVars>>
besidesResearch == <<agentVars, budgetVars, travelVars, productionVars, cycleVars, analyzerVars>>
besidesProduction == <<agentVars, budgetVars, travelVars, researchVars, cycleVars, analyzerVars>>
besidesCycle == <<agentVars, budgetVars, travelVars, researchVars, productionVars, analyzerVars>>
besidesAnalyzer == <<agentVars, budgetVars, travelVars, researchVars, productionVars, cycleVars>>

(***************************************************************************)
(* Bounds of the model.                                                    *)
(***************************************************************************)
MaxGoals == 2
MaxPlanGoals == 3
MaxPriority == 2
MaxMemory == 2
MaxRecall == 3
MaxLimit == 2

(***************************************************************************)
(* Python strings.                                                         *)
(***************************************************************************)
TextLiterals ==
  { "", "research_destination", "plan_budget", "book_flight",
    "find_accommodation", "research", "Web_Search",
    "search_info", "calculate_budget", "search_flights", "search_hotels",
    "web_search", "budget_calculator", "flight_api", "hotel_api",
    "destination", "query", "Rome",
    "{'action': '", "', 'parameters': ", ", 'tool_used': '", "'}",
    "{", "}", "'", "': ", ", ", "None",
    "Success: ", "Error: ",
    "Found information about ", ": Great destination with rich history!",
    "general search", "service unavailable",
    "Research notes", "packing list", "skipped", "asked the WEB_SEARCH desk",
    "Paris", "Berlin", "Prague", "PARIS", "paris", "berlin", "amsterdam", "prague",
    "Barcelona", "Lisbon", "Colosseum", "Vatican City", "Trevi Fountain",
    "Roman Forum", "Pantheon", "Eiffel Tower", "Louvre Museum", "Notre-Dame",
    "Arc de Triomphe", "Montmartre", "Sagrada Familia", "Park Guell",
    "Las Ramblas", "Gothic Quarter", "Casa Batllo", "Local museums",
    "City center", "Parks", "colosseum", "forum", "pantheon", "notre-dame",
    "gothic", "louvre", "vatican", "museum", "gallery", "sagrada", "eiffel",
    "arc", "casa", "montmartre", "las ramblas", "gothic quarter", "market",
    "quarter", "ramblas", "park", "garden", "guell", "art", "history",
    "architecture", "culture", "food", "nature", "History", "beaches",
    "20-28C", "23-31C", "19-26C", "15-22C", "17-25C", "14-21C", "20-26C",
    "23-29C", "24-29C", "21-26C", "15-25C", "Warm and pleasant",
    "Hot and sunny", "Very hot", "Mild and comfortable", "Mild and pleasant",
    "Warm", "Cool and comfortable", "Perfect weather", "Warm and sunny",
    "Hot", "Excellent weather", "Typical European weather", "Low", "Very low",
    "Moderate", "moderate", "high", "30", "hot", "15", "25",
    "Light, breathable clothing", "Sun hat and sunscreen",
    "Comfortable walking shoes", "Layered clothing",
    "Light jacket or cardigan", "Comfortable layers", "Light jacket",
    "Good walking shoes", "Compact umbrella or rain jacket",
    "Pack layers and bring a light rain jacket", "January", "February",
    "March", "April", "May", "June", "July", "August", "September", "October",
    "November", "December", "June 15-29, 2024", "Sep 3-9", "next spring",
    "Book attractions in advance to skip lines",
    "Dress modestly for Vatican visits",
    "Try authentic Roman pizza al taglio",
    "Walk early morning or evening when it's cooler",
    "Learn basic French phrases",
    "Visit museums on first Sunday mornings for free entry",
    "Try croissants from local boulangeries",
    "Use the metro for efficient city travel",
    "Book Sagrada Familia tickets well in advance",
    "Enjoy tapas culture - eat small plates",
    "Siesta time is real - many shops close 2-5 PM",
    "Beach is easily accessible by metro", "Research local customs",
    "Book accommodations in advance", "free", "save", "advance", "local",
    "0", "1", "2", "3", "4", "5", "6", "7", "8", "9", ".", "Daily budget: $",
    "Found flights to ", " starting from $800", "unknown", "total_budget",
    "duration", "dates", "June 15-29", "unsupported operand type(s) for /",
    "division by zero",
    "culinary", "luxury", "activities", "food,culture", "Food, Luxury",
    "culture,food,luxury", "seafood", " , ", "food,activities",
    "luxury,culture", "shopping", "Culinary,LUXURY" }

CharsOf(s) ==
  CASE s = "" -> <<>>
    [] s = "research_destination" -> <<"r", "e", "s", "e", "a", "r", "c", "h", "_", "d", "e", "s", "t", "i", "n", "a", "t", "i", "o", "n">>
    [] s = "plan_budget" -> <<"p", "l", "a", "n", "_", "b", "u", "d", "g", "e", "t">>
    [] s = "book_flight" -> <<"b", "o", "o", "k", "_", "f", "l", "i", "g", "h", "t">>
    [] s = "find_accommodation" -> <<"f", "i", "n", "d", "_", "a", "c", "c", "o", "m", "m", "o", "d", "a", "t", "i", "o", "n">>
    [] s = "research" -> <<"r", "e", "s", "e", "a", "r", "c", "h">>
    [] s = "Web_Search" -> <<"W", "e", "b", "_", "S", "e", "a", "r", "c", "h">>
    [] s = "search_info" -> <<"s", "e", "a", "r", "c", "h", "_", "i", "n", "f", "o">>
    [] s = "calculate_budget" -> <<"c", "a", "l", "c", "u", "l", "a", "t", "e", "_", "b", "u", "d", "g", "e", "t">>
    [] s = "search_flights" -> <<"s", "e", "a", "r", "c", "h", "_", "f", "l", "i", "g", "h", "t", "s">>
    [] s = "search_hotels" -> <<"s", "e", "a", "r", "c", "h", "_", "h", "o", "t", "e", "l", "s">>
    [] s = "web_search" -> <<"w", "e", "b", "_", "s", "e", "a", "r", "c", "h">>
    [] s = "budget_calculator" -> <<"b", "u", "d", "g", "e", "t", "_", "c", "a", "l", "c", "u", "l", "a", "t", "o", "r">>
    [] s = "flight_api" -> <<"f", "l", "i", "g", "h", "t", "_", "a", "p", "i">>
    [] s = "hotel_api" -> <<"h", "o", "t", "e", "l", "_", "a", "p", "i">>
    [] s = "destination" -> <<"d", "e", "s", "t", "i", "n", "a", "t", "i", "o", "n">>
    [] s = "query" -> <<"q", "u", "e", "r", "y">>
    [] s = "Rome" -> <<"R", "o", "m", "e">>
    [] s = "{'action': '" -> <<"{", "'", "a", "c", "t", "i", "o", "n", "'", ":", " ", "'">>
    [] s = "', 'parameters': " -> <<"'", ",", " ", "'", "p", "a", "r", "a", "m", "e", "t", "e", "r", "s", "'", ":", " ">>
    [] s = ", 'tool_used': '" -> <<",", " ", "'", "t", "o", "o", "l", "_", "u", "s", "e", "d", "'", ":", " ", "'">>
    [] s = "'}" -> <<"'", "}">>
    [] s = "{" -> <<"{">>
    [] s = "}" -> <<"}">>
    [] s = "'" -> <<"'">>
    [] s = "': " -> <<"'", ":", " ">>
    [] s = ", " -> <<",", " ">>
    [] s = "None" -> <<"N", "o", "n", "e">>
    [] s = "Success: " -> <<"S", "u", "c", "c", "e", "s", "s", ":", " ">>
    [] s = "Error: " -> <<"E", "r", "r", "o", "r", ":", " ">>
    [] s = "Found information about " -> <<"F", "o", "u", "n", "d", " ", "i", "n", "f", "o", "r", "m", "a", "t", "i", "o", "n", " ", "a", "b", "o", "u", "t", " ">>
    [] s = ": Great destination with rich history!" -> <<":", " ", "G", "r", "e", "a", "t", " ", "d", "e", "s", "t", "i", "n", "a", "t", "i", "o", "n", " ", "w", "i", "t", "h", " ", "r", "i", "c", "h", " ", "h", "i", "s", "t", "o", "r", "y", "!">>
    [] s = "general search" -> <<"g", "e", "n", "e", "r", "a", "l", " ", "s", "e", "a", "r", "c", "h">>
    [] s = "service unavailable" -> <<"s", "e", "r", "v", "i", "c", "e", " ", "u", "n", "a", "v", "a", "i", "l", "a", "b", "l", "e">>
    [] s = "Research notes" -> <<"R", "e", "s", "e", "a", "r", "c", "h", " ", "n", "o", "t", "e", "s">>
    [] s = "packing list" -> <<"p", "a", "c", "k", "i", "n", "g", " ", "l", "i", "s", "t">>
    [] s = "skipped" -> <<"s", "k", "i", "p", "p", "e", "d">>
    [] s = "asked the WEB_SEARCH desk" -> <<"a", "s", "k", "e", "d", " ", "t", "h", "e", " ", "W", "E", "B", "_", "S", "E", "A", "R", "C", "H", " ", "d", "e", "s", "k">>
    [] s = "Paris" -> <<"P", "a", "r", "i", "s">>
    [] s = "Berlin" -> <<"B", "e", "r", "l", "i", "n">>
    [] s = "Prague" -> <<"P", "r", "a", "g", "u", "e">>
    [] s = "PARIS" -> <<"P", "A", "R", "I", "S">>
    [] s = "paris" -> <<"p", "a", "r", "i", "s">>
    [] s = "berlin" -> <<"b", "e", "r", "l", "i", "n">>
    [] s = "amsterdam" -> <<"a", "m", "s", "t", "e", "r", "d", "a", "m">>
    [] s = "prague" -> <<"p", "r", "a", "g", "u", "e">>
    [] s = "Barcelona" -> <<"B", "a", "r", "c", "e", "l", "o", "n", "a">>
    [] s = "Lisbon" -> <<"L", "i", "s", "b", "o", "n">>
    [] s = "Colosseum" -> <<"C", "o", "l", "o", "s", "s", "e", "u", "m">>
    [] s = "Vatican City" -> <<"V", "a", "t", "i", "c", "a", "n", " ", "C", "i", "t", "y">>
    [] s = "Trevi Fountain" -> <<"T", "r", "e", "v", "i", " ", "F", "o", "u", "n", "t", "a", "i", "n">>
    [] s = "Roman Forum" -> <<"R", "o", "m", "a", "n", " ", "F", "o", "r", "u", "m">>
    [] s = "Pantheon" -> <<"P", "a", "n", "t", "h", "e", "o", "n">>
    [] s = "Eiffel Tower" -> <<"E", "i", "f", "f", "e", "l", " ", "T", "o", "w", "e", "r">>
    [] s = "Louvre Museum" -> <<"L", "o", "u", "v", "r", "e", " ", "M", "u", "s", "e", "u", "m">>
    [] s = "Notre-Dame" -> <<"N", "o", "t", "r", "e", "-", "D", "a", "m", "e">>
    [] s = "Arc de Triomphe" -> <<"A", "r", "c", " ", "d", "e", " ", "T", "r", "i", "o", "m", "p", "h", "e">>
    [] s = "Montmartre" -> <<"M", "o", "n", "t", "m", "a", "r", "t", "r", "e">>
    [] s = "Sagrada Familia" -> <<"S", "a", "g", "r", "a", "d", "a", " ", "F", "a", "m", "i", "l", "i", "a">>
    [] s = "Park Guell" -> <<"P", "a", "r", "k", " ", "G", "u-diaeresis", "e", "l", "l">>
    [] s = "Las Ramblas" -> <<"L", "a", "s", " ", "R", "a", "m", "b", "l", "a", "s">>
    [] s = "Gothic Quarter" -> <<"G", "o", "t", "h", "i", "c", " ", "Q", "u", "a", "r", "t", "e", "r">>
    [] s = "Casa Batllo" -> <<"C", "a", "s", "a", " ", "B", "a", "t", "l", "l", "o-acute">>
    [] s = "Local museums" -> <<"L", "o", "c", "a", "l", " ", "m", "u", "s", "e", "u", "m", "s">>
    [] s = "City center" -> <<"C", "i", "t", "y", " ", "c", "e", "n", "t", "e", "r">>
    [] s = "Parks" -> <<"P", "a", "r", "k", "s">>
    [] s = "colosseum" -> <<"c", "o", "l", "o", "s", "s", "e", "u", "m">>
    [] s = "forum" -> <<"f", "o", "r", "u", "m">>
    [] s = "pantheon" -> <<"p", "a", "n", "t", "h", "e", "o", "n">>
    [] s = "notre-dame" -> <<"n", "o", "t", "r", "e", "-", "d", "a", "m", "e">>
    [] s = "gothic" -> <<"g", "o", "t", "h", "i", "c">>
    [] s = "louvre" -> <<"l", "o", "u", "v", "r", "e">>
    [] s = "vatican" -> <<"v", "a", "t", "i", "c", "a", "n">>
    [] s = "museum" -> <<"m", "u", "s", "e", "u", "m">>
    [] s = "gallery" -> <<"g", "a", "l", "l", "e", "r", "y">>
    [] s = "sagrada" -> <<"s", "a", "g", "r", "a", "d", "a">>
    [] s = "eiffel" -> <<"e", "i", "f", "f", "e", "l">>
    [] s = "arc" -> <<"a", "r", "c">>
    [] s = "casa" -> <<"c", "a", "s", "a">>
    [] s = "montmartre" -> <<"m", "o", "n", "t", "m", "a", "r", "t", "r", "e">>
    [] s = "las ramblas" -> <<"l", "a", "s", " ", "r", "a", "m", "b", "l", "a", "s">>
    [] s = "gothic quarter" -> <<"g", "o", "t", "h", "i", "c", " ", "q", "u", "a", "r", "t", "e", "r">>
    [] s = "market" -> <<"m", "a", "r", "k", "e", "t">>
    [] s = "quarter" -> <<"q", "u", "a", "r", "t", "e", "r">>
    [] s = "ramblas" -> <<"r", "a", "m", "b", "l", "a", "s">>
    [] s = "park" -> <<"p", "a", "r", "k">>
    [] s = "garden" -> <<"g", "a", "r", "d", "e", "n">>
    [] s = "guell" -> <<"g", "u-diaeresis", "e", "l", "l">>
    [] s = "art" -> <<"a", "r", "t">>
    [] s = "history" -> <<"h", "i", "s", "t", "o", "r", "y">>
    [] s = "architecture" -> <<"a", "r", "c", "h", "i", "t", "e", "c", "t", "u", "r", "e">>
    [] s = "culture" -> <<"c", "u", "l", "t", "u", "r", "e">>
    [] s = "food" -> <<"f", "o", "o", "d">>
    [] s = "nature" -> <<"n", "a", "t", "u", "r", "e">>
    [] s = "History" -> <<"H", "i", "s", "t", "o", "r", "y">>
    [] s = "beaches" -> <<"b", "e", "a", "c", "h", "e", "s">>
    [] s = "20-28C" -> <<"2", "0", "-", "2", "8", "degree", "C">>
    [] s = "23-31C" -> <<"2", "3", "-", "3", "1", "degree", "C">>
    [] s = "19-26C" -> <<"1", "9", "-", "2", "6", "degree", "C">>
    [] s = "15-22C" -> <<"1", "5", "-", "2", "2", "degree", "C">>
    [] s = "17-25C" -> <<"1", "7", "-", "2", "5", "degree", "C">>
    [] s = "14-21C" -> <<"1", "4", "-", "2", "1", "degree", "C">>
    [] s = "20-26C" -> <<"2", "0", "-", "2", "6", "degree", "C">>
    [] s = "23-29C" -> <<"2", "3", "-", "2", "9", "degree", "C">>
    [] s = "24-29C" -> <<"2", "4", "-", "2", "9", "degree", "C">>
    [] s = "21-26C" -> <<"2", "1", "-", "2", "6", "degree", "C">>
    [] s = "15-25C" -> <<"1", "5", "-", "2", "5", "degree", "C">>
    [] s = "Warm and pleasant" -> <<"W", "a", "r", "m", " ", "a", "n", "d", " ", "p", "l", "e", "a", "s", "a", "n", "t">>
    [] s = "Hot and sunny" -> <<"H", "o", "t", " ", "a", "n", "d", " ", "s", "u", "n", "n", "y">>
    [] s = "Very hot" -> <<"V", "e", "r", "y", " ", "h", "o", "t">>
    [] s = "Mild and comfortable" -> <<"M", "i", "l", "d", " ", "a", "n", "d", " ", "c", "o", "m", "f", "o", "r", "t", "a", "b", "l", "e">>
    [] s = "Mild and pleasant" -> <<"M", "i", "l", "d", " ", "a", "n", "d", " ", "p", "l", "e", "a", "s", "a", "n", "t">>
    [] s = "Warm" -> <<"W", "a", "r", "m">>
    [] s = "Cool and comfortable" -> <<"C", "o", "o", "l", " ", "a", "n", "d", " ", "c", "o", "m", "f", "o", "r", "t", "a", "b", "l", "e">>
    [] s = "Perfect weather" -> <<"P", "e", "r", "f", "e", "c", "t", " ", "w", "e", "a", "t", "h", "e", "r">>
    [] s = "Warm and sunny" -> <<"W", "a", "r", "m", " ", "a", "n", "d", " ", "s", "u", "n", "n", "y">>
    [] s = "Hot" -> <<"H", "o", "t">>
    [] s = "Excellent weather" -> <<"E", "x", "c", "e", "l", "l", "e", "n", "t", " ", "w", "e", "a", "t", "h", "e", "r">>
    [] s = "Typical European weather" -> <<"T", "y", "p", "i", "c", "a", "l", " ", "E", "u", "r", "o", "p", "e", "a", "n", " ", "w", "e", "a", "t", "h", "e", "r">>
    [] s = "Low" -> <<"L", "o", "w">>
    [] s = "Very low" -> <<"V", "e", "r", "y", " ", "l", "o", "w">>
    [] s = "Moderate" -> <<"M", "o", "d", "e", "r", "a", "t", "e">>
    [] s = "moderate" -> <<"m", "o", "d", "e", "r", "a", "t", "e">>
    [] s = "high" -> <<"h", "i", "g", "h">>
    [] s = "30" -> <<"3", "0">>
    [] s = "hot" -> <<"h", "o", "t">>
    [] s = "15" -> <<"1", "5">>
    [] s = "25" -> <<"2", "5">>
    [] s = "Light, breathable clothing" -> <<"L", "i", "g", "h", "t", ",", " ", "b", "r", "e", "a", "t", "h", "a", "b", "l", "e", " ", "c", "l", "o", "t", "h", "i", "n", "g">>
    [] s = "Sun hat and sunscreen" -> <<"S", "u", "n", " ", "h", "a", "t", " ", "a", "n", "d", " ", "s", "u", "n", "s", "c", "r", "e", "e", "n">>
    [] s = "Comfortable walking shoes" -> <<"C", "o", "m", "f", "o", "r", "t", "a", "b", "l", "e", " ", "w", "a", "l", "k", "i", "n", "g", " ", "s", "h", "o", "e", "s">>
    [] s = "Layered clothing" -> <<"L", "a", "y", "e", "r", "e", "d", " ", "c", "l", "o", "t", "h", "i", "n", "g">>
    [] s = "Light jacket or cardigan" -> <<"L", "i", "g", "h", "t", " ", "j", "a", "c", "k", "e", "t", " ", "o", "r", " ", "c", "a", "r", "d", "i", "g", "a", "n">>
    [] s = "Comfortable layers" -> <<"C", "o", "m", "f", "o", "r", "t", "a", "b", "l", "e", " ", "l", "a", "y", "e", "r", "s">>
    [] s = "Light jacket" -> <<"L", "i", "g", "h", "t", " ", "j", "a", "c", "k", "e", "t">>
    [] s = "Good walking shoes" -> <<"G", "o", "o", "d", " ", "w", "a", "l", "k", "i", "n", "g", " ", "s", "h", "o", "e", "s">>
    [] s = "Compact umbrella or rain jacket" -> <<"C", "o", "m", "p", "a", "c", "t", " ", "u", "m", "b", "r", "e", "l", "l", "a", " ", "o", "r", " ", "r", "a", "i", "n", " ", "j", "a", "c", "k", "e", "t">>
    [] s = "Pack layers and bring a light rain jacket" -> <<"P", "a", "c", "k", " ", "l", "a", "y", "e", "r", "s", " ", "a", "n", "d", " ", "b", "r", "i", "n", "g", " ", "a", " ", "l", "i", "g", "h", "t", " ", "r", "a", "i", "n", " ", "j", "a", "c", "k", "e", "t">>
    [] s = "January" -> <<"J", "a", "n", "u", "a", "r", "y">>
    [] s = "February" -> <<"F", "e", "b", "r", "u", "a", "r", "y">>
    [] s = "March" -> <<"M", "a", "r", "c", "h">>
    [] s = "April" -> <<"A", "p", "r", "i", "l">>
    [] s = "May" -> <<"M", "a", "y">>
    [] s = "June" -> <<"J", "u", "n", "e">>
    [] s = "July" -> <<"J", "u", "l", "y">>
    [] s = "August" -> <<"A", "u", "g", "u", "s", "t">>
    [] s = "September" -> <<"S", "e", "p", "t", "e", "m", "b", "e", "r">>
    [] s = "October" -> <<"O", "c", "t", "o", "b", "e", "r">>
    [] s = "November" -> <<"N", "o", "v", "e", "m", "b", "e", "r">>
    [] s = "December" -> <<"D", "e", "c", "e", "m", "b", "e", "r">>
    [] s = "June 15-29, 2024" -> <<"J", "u", "n", "e", " ", "1", "5", "-", "2", "9", ",", " ", "2", "0", "2", "4">>
    [] s = "Sep 3-9" -> <<"S", "e", "p", " ", "3", "-", "9">>
    [] s = "next spring" -> <<"n", "e", "x", "t", " ", "s", "p", "r", "i", "n", "g">>
    [] s = "Book attractions in advance to skip lines" -> <<"B", "o", "o", "k", " ", "a", "t", "t", "r", "a", "c", "t", "i", "o", "n", "s", " ", "i", "n", " ", "a", "d", "v", "a", "n", "c", "e", " ", "t", "o", " ", "s", "k", "i", "p", " ", "l", "i", "n", "e", "s">>
    [] s = "Dress modestly for Vatican visits" -> <<"D", "r", "e", "s", "s", " ", "m", "o", "d", "e", "s", "t", "l", "y", " ", "f", "o", "r", " ", "V", "a", "t", "i", "c", "a", "n", " ", "v", "i", "s", "i", "t", "s">>
    [] s = "Try authentic Roman pizza al taglio" -> <<"T", "r", "y", " ", "a", "u", "t", "h", "e", "n", "t", "i", "c", " ", "R", "o", "m", "a", "n", " ", "p", "i", "z", "z", "a", " ", "a", "l", " ", "t", "a", "g", "l", "i", "o">>
    [] s = "Walk early morning or evening when it's cooler" -> <<"W", "a", "l", "k", " ", "e", "a", "r", "l", "y", " ", "m", "o", "r", "n", "i", "n", "g", " ", "o", "r", " ", "e", "v", "e", "n", "i", "n", "g", " ", "w", "h", "e", "n", " ", "i", "t", "'", "s", " ", "c", "o", "o", "l", "e", "r">>
    [] s = "Learn basic French phrases" -> <<"L", "e", "a", "r", "n", " ", "b", "a", "s", "i", "c", " ", "F", "r", "e", "n", "c", "h", " ", "p", "h", "r", "a", "s", "e", "s">>
    [] s = "Visit museums on first Sunday mornings for free entry" -> <<"V", "i", "s", "i", "t", " ", "m", "u", "s", "e", "u", "m", "s", " ", "o", "n", " ", "f", "i", "r", "s", "t", " ", "S", "u", "n", "d", "a", "y", " ", "m", "o", "r", "n", "i", "n", "g", "s", " ", "f", "o", "r", " ", "f", "r", "e", "e", " ", "e", "n", "t", "r", "y">>
    [] s = "Try croissants from local boulangeries" -> <<"T", "r", "y", " ", "c", "r", "o", "i", "s", "s", "a", "n", "t", "s", " ", "f", "r", "o", "m", " ", "l", "o", "c", "a", "l", " ", "b", "o", "u", "l", "a", "n", "g", "e", "r", "i", "e", "s">>
    [] s = "Use the metro for efficient city travel" -> <<"U", "s", "e", " ", "t", "h", "e", " ", "m", "e", "t", "r", "o", " ", "f", "o", "r", " ", "e", "f", "f", "i", "c", "i", "e", "n", "t", " ", "c", "i", "t", "y", " ", "t", "r", "a", "v", "e", "l">>
    [] s = "Book Sagrada Familia tickets well in advance" -> <<"B", "o", "o", "k", " ", "S", "a", "g", "r", "a", "d", "a", " ", "F", "a", "m", "i", "l", "i", "a", " ", "t", "i", "c", "k", "e", "t", "s", " ", "w", "e", "l", "l", " ", "i", "n", " ", "a", "d", "v", "a", "n", "c", "e">>
    [] s = "Enjoy tapas culture - eat small plates" -> <<"E", "n", "j", "o", "y", " ", "t", "a", "p", "a", "s", " ", "c", "u", "l", "t", "u", "r", "e", " ", "-", " ", "e", "a", "t", " ", "s", "m", "a", "l", "l", " ", "p", "l", "a", "t", "e", "s">>
    [] s = "Siesta time is real - many shops close 2-5 PM" -> <<"S", "i", "e", "s", "t", "a", " ", "t", "i", "m", "e", " ", "i", "s", " ", "r", "e", "a", "l", " ", "-", " ", "m", "a", "n", "y", " ", "s", "h", "o", "p", "s", " ", "c", "l", "o", "s", "e", " ", "2", "-", "5", " ", "P", "M">>
    [] s = "Beach is easily accessible by metro" -> <<"B", "e", "a", "c", "h", " ", "i", "s", " ", "e", "a", "s", "i", "l", "y", " ", "a", "c", "c", "e", "s", "s", "i", "b", "l", "e", " ", "b", "y", " ", "m", "e", "t", "r", "o">>
    [] s = "Research local customs" -> <<"R", "e", "s", "e", "a", "r", "c", "h", " ", "l", "o", "c", "a", "l", " ", "c", "u", "s", "t", "o", "m", "s">>
    [] s = "Book accommodations in advance" -> <<"B", "o", "o", "k", " ", "a", "c", "c", "o", "m", "m", "o", "d", "a", "t", "i", "o", "n", "s", " ", "i", "n", " ", "a", "d", "v", "a", "n", "c", "e">>
    [] s = "free" -> <<"f", "r", "e", "e">>
    [] s = "save" -> <<"s", "a", "v", "e">>
    [] s = "advance" -> <<"a", "d", "v", "a", "n", "c", "e">>
    [] s = "local" -> <<"l", "o", "c", "a", "l">>
    [] s = "0" -> <<"0">>
    [] s = "1" -> <<"1">>
    [] s = "2" -> <<"2">>
    [] s = "3" -> <<"3">>
    [] s = "4" -> <<"4">>
    [] s = "5" -> <<"5">>
    [] s = "6" -> <<"6">>
    [] s = "7" -> <<"7">>
    [] s = "8" -> <<"8">>
    [] s = "9" -> <<"9">>
    [] s = "." -> <<".">>
    [] s = "Daily budget: $" -> <<"D", "a", "i", "l", "y", " ", "b", "u", "d", "g", "e", "t", ":", " ", "$">>
    [] s = "Found flights to " -> <<"F", "o", "u", "n", "d", " ", "f", "l", "i", "g", "h", "t", "s", " ", "t", "o", " ">>
    [] s = " starting from $800" -> <<" ", "s", "t", "a", "r", "t", "i", "n", "g", " ", "f", "r", "o", "m", " ", "$", "8", "0", "0">>
    [] s = "unknown" -> <<"u", "n", "k", "n", "o", "w", "n">>
    [] s = "total_budget" -> <<"t", "o", "t", "a", "l", "_", "b", "u", "d", "g", "e", "t">>
    [] s = "duration" -> <<"d", "u", "r", "a", "t", "i", "o", "n">>
    [] s = "dates" -> <<"d", "a", "t", "e", "s">>
    [] s = "June 15-29" -> <<"J", "u", "n", "e", " ", "1", "5", "-", "2", "9">>
    [] s = "unsupported operand type(s) for /" -> <<"u", "n", "s", "u", "p", "p", "o", "r", "t", "e", "d", " ", "o", "p", "e", "r", "a", "n", "d", " ", "t", "y", "p", "e", "(", "s", ")", " ", "f", "o", "r", " ", "/">>
    [] s = "division by zero" -> <<"d", "i", "v", "i", "s", "i", "o", "n", " ", "b", "y", " ", "z", "e", "r", "o">>
    [] s = "culinary" -> <<"c", "u", "l", "i", "n", "a", "r", "y">>
    [] s = "luxury" -> <<"l", "u", "x", "u", "r", "y">>
    [] s = "activities" -> <<"a", "c", "t", "i", "v", "i", "t", "i", "e", "s">>
    [] s = "food,culture" -> <<"f", "o", "o", "d", ",", "c", "u", "l", "t", "u", "r", "e">>
    [] s = "Food, Luxury" -> <<"F", "o", "o", "d", ",", " ", "L", "u", "x", "u", "r", "y">>
    [] s = "culture,food,luxury" -> <<"c", "u", "l", "t", "u", "r", "e", ",", "f", "o", "o", "d", ",", "l", "u", "x", "u", "r", "y">>
    [] s = "seafood" -> <<"s", "e", "a", "f", "o", "o", "d">>
    [] s = " , " -> <<" ", ",", " ">>
    [] s = "food,activities" -> <<"f", "o", "o", "d", ",", "a", "c", "t", "i", "v", "i", "t", "i", "e", "s">>
    [] s = "luxury,culture" -> <<"l", "u", "x", "u", "r", "y", ",", "c", "u", "l", "t", "u", "r", "e">>
    [] s = "shopping" -> <<"s", "h", "o", "p", "p", "i", "n", "g">>
    [] s = "Culinary,LUXURY" -> <<"C", "u", "l", "i", "n", "a", "r", "y", ",", "L", "U", "X", "U", "R", "Y">>
CharTable == [s \in TextLiterals |-> CharsOf(s)]

Chars(s) == CharTable[s]

\* A Python string built from pieces (an f-string, a concatenation).
RECURSIVE Text(_)
Text(pieces) ==
  IF pieces = <<>> THEN <<>> ELSE Chars(Head(pieces)) \o Text(Tail(pieces))

\* str.lower(), one character.
LowerChar(c) ==
  CASE c = "A" -> "a" [] c = "B" -> "b" [] c = "C" -> "c" [] c = "D" -> "d"
    [] c = "E" -> "e" [] c = "F" -> "f" [] c = "G" -> "g" [] c = "H" -> "h"
    [] c = "I" -> "i" [] c = "J" -> "j" [] c = "K" -> "k" [] c = "L" -> "l"
    [] c = "M" -> "m" [] c = "N" -> "n" [] c = "O" -> "o" [] c = "P" -> "p"
    [] c = "Q" -> "q" [] c = "R" -> "r" [] c = "S" -> "s" [] c = "T" -> "t"
    [] c = "U" -> "u" [] c = "V" -> "v" [] c = "W" -> "w" [] c = "X" -> "x"
    [] c = "Y" -> "y" [] c = "Z" -> "z" [] OTHER -> c

\* The characters in use, and lower() of each.
Alphabet == UNION { {CharTable[s][i] : i \in 1..Len(CharTable[s])} : s \in TextLiterals }

LowerTable == [c \in Alphabet |-> LowerChar(c)]

\* str.lower()
Lower(t) == [i \in 1..Len(t) |-> LowerTable[t[i]]]

\* The Python test `needle in hay` on strings.
Contains(hay, needle) ==
  \E i \in 0..(Len(hay) - Len(needle)) :
    \A k \in 1..Len(needle) : hay[i + k] = needle[k]

\* Python's None and a present value.
None == <<>>
Some(x) == <<x>>

\* A number as a value of a dictionary (a string is Some(s)).
Num(n) == <<"int", n>>
IsNum(v) == Len(v) = 2

\* num / den rounded to a whole number, for den > 0.
RoundHalfEven(num, den) ==
  LET q == num \div den
      r == num - q * den
  IN  IF 2 * r < den THEN q
      ELSE IF 2 * r > den THEN q + 1
      ELSE IF q % 2 = 0 THEN q ELSE q + 1

\* str() of a natural number, the digits one by one.
Digit(d) ==
  CASE d = 0 -> "0" [] d = 1 -> "1" [] d = 2 -> "2" [] d = 3 -> "3" [] d = 4 -> "4"
    [] d = 5 -> "5" [] d = 6 -> "6" [] d = 7 -> "7" [] d = 8 -> "8" [] d = 9 -> "9"

RECURSIVE Decimal(_)
Decimal(n) ==
  IF n < 10 THEN <<Digit(n)>> ELSE Decimal(n \div 10) \o <<Digit(n % 10)>>

\* f"{x:.2f}" for x = num / den, not negative.
Fixed2(num, den) ==
  LET cents == RoundHalfEven(100 * num, den)
  IN  Decimal(cents \div 100)
        \o <<".", Digit((cents % 100) \div 10), Digit(cents % 10)>>

(***************************************************************************)
(* Dictionaries of parameters: a sequence of items in insertion order, the *)
(* values strings or None.                                                 *)
(***************************************************************************)
Item(k, v) == [key |-> k, value |-> v]

\* dict.get(key, default)
RECURSIVE Get(_, _, _)
Get(p, key, default) ==
  IF p = <<>> THEN default
  ELSE IF Head(p).key = key THEN Head(p).value
  ELSE Get(Tail(p), key, default)

\* repr() of a value of a dictionary.
ReprValue(v) ==
  IF v = None THEN Chars("None")
  ELSE IF IsNum(v) THEN Decimal(v[2])
  ELSE Chars("'") \o Chars(v[1]) \o Chars("'")

RECURSIVE ReprItems(_)
ReprItems(p) ==
  IF p = <<>> THEN <<>>
  ELSE Chars("'") \o Chars(Head(p).key) \o Chars("': ") \o ReprValue(Head(p).value)
       \o (IF Len(p) > 1 THEN Chars(", ") ELSE <<>>) \o ReprItems(Tail(p))

\* str() of a dictionary of parameters.
ReprDict(p) == Chars("{") \o ReprItems(p) \o Chars("}")

(***************************************************************************)
(* Goal, Action, MemoryEntry.  The created_at / completed_at stamps of a   *)
(* goal and of an action are written and never read; they are left out.    *)
(***************************************************************************)
Goal(goal_type, parameters, priority) ==
  [type |-> goal_type, parameters |-> parameters, priority |-> priority,
   completed |-> FALSE]

Action(action_type, parameters, tool_needed) ==
  [type |-> action_type, parameters |-> parameters, tool_needed |-> tool_needed]

MemoryEntry(experience_type, data, outcome, satisfaction, timestamp) ==
  [type |-> experience_type, data |-> data, outcome |-> outcome,
   satisfaction |-> satisfaction, timestamp |-> timestamp]

\* The data of a memory: a plain string, or the dictionary execute_action records.
TextData(pieces) ==
  [kind |-> "str", text |-> pieces, action |-> "", parameters |-> <<>>,
   tool_used |-> ""]

ExecutionData(action) ==
  [kind |-> "dict", text |-> <<>>, action |-> action.type,
   parameters |-> action.parameters, tool_used |-> action.tool_needed[1]]

\* str(memory.data)
StrData(d) ==
  IF d.kind = "str" THEN Text(d.text)
  ELSE Chars("{'action': '") \o Chars(d.action) \o Chars("', 'parameters': ")
       \o ReprDict(d.parameters) \o Chars(", 'tool_used': '") \o Chars(d.tool_used)
       \o Chars("'}")

(***************************************************************************)
(* BasicAgent.plan_next_action                                             *)
(***************************************************************************)
\* [g for g in self.goals if not g.completed], as positions in self.goals
IncompleteGoals(gs) == SelectSeq([i \in 1..Len(gs) |-> i], LAMBDA i : ~gs[i].completed)

\* Whether max() replaces its current best by the next candidate.
\* A faulty comparison, with which the last of the largest is taken.
ReplacesOnTie(candidate, best) == candidate >= best

MaxReplaces(candidate, best) == candidate > best

\* Python's max(seq, key=...): the first element whose key is the largest.
RECURSIVE MaxByPriority(_, _, _)
MaxByPriority(gs, idx, best) ==
  IF idx = <<>> THEN best
  ELSE MaxByPriority(gs, Tail(idx),
         IF MaxReplaces(gs[Head(idx)].priority, gs[best].priority)
         THEN Head(idx) ELSE best)

CreateActionForGoal(goal) ==
  CASE goal.type = "research_destination" ->
         Action("search_info",
                <<Item("query", Get(goal.parameters, "destination", None))>>,
                Some("web_search"))
    [] goal.type = "plan_budget" ->
         Action("calculate_budget", goal.parameters, Some("budget_calculator"))
    [] goal.type = "book_flight" ->
         Action("search_flights", goal.parameters, Some("flight_api"))
    [] goal.type = "find_accommodation" ->
         Action("search_hotels", goal.parameters, Some("hotel_api"))
    [] OTHER -> Action("research", goal.parameters, Some("web_search"))

\* The position of the goal plan_next_action plans for; 0 when it returns None.
NextGoal(gs) ==
  LET incomplete_goals == IncompleteGoals(gs)
  IN  IF incomplete_goals = <<>> THEN 0
      ELSE MaxByPriority(gs, Tail(incomplete_goals), Head(incomplete_goals))

PlanNextActionResult(gs) ==
  IF NextGoal(gs) = 0 THEN None ELSE Some(CreateActionForGoal(gs[NextGoal(gs)]))

(***************************************************************************)
(* Tools: the callbacks a caller registers.  simple_search is the one of   *)
(* the demonstration; unavailable_service raises an Exception.             *)
(***************************************************************************)
ToolFunctions == {"simple_search", "unavailable_service"}

\* budget_calculator of the demonstration: budget / duration raises for a
\* duration of 0 and for a value that is no number.
BudgetCalculator(params) ==
  LET budget == Get(params, "total_budget", Num(0))
      duration == Get(params, "duration", Num(1))
  IN  IF ~IsNum(budget) \/ ~IsNum(duration)
      THEN [raised |-> TRUE, text |-> <<"unsupported operand type(s) for /">>]
      ELSE IF duration[2] = 0
      THEN [raised |-> TRUE, text |-> <<"division by zero">>]
      ELSE [raised |-> FALSE,
            text |-> <<"Daily budget: $">> \o Fixed2(budget[2], duration[2])]

\* flight_search of the demonstration.
FlightSearch(params) ==
  LET destination == Get(params, "destination", Some("unknown"))
  IN  [raised |-> FALSE,
       text |-> <<"Found flights to ",
                  IF destination = None THEN "None" ELSE destination[1],
                  " starting from $800">>]

\* Calling a tool: whether it raised, and the text it returned or raised with.
Invoke(fn, parameters) ==
  IF fn = "simple_search"
  THEN LET query == Get(parameters, "query", Some("general search"))
       IN  [raised |-> FALSE,
            text |-> <<"Found information about ",
                       IF query = None THEN "None" ELSE query[1],
                       ": Great destination with rich history!">>]
  ELSE IF fn = "budget_calculator" THEN BudgetCalculator(parameters)
  ELSE IF fn = "flight_search" THEN FlightSearch(parameters)
  ELSE [raised |-> TRUE, text |-> <<"service unavailable">>]

(***************************************************************************)
(* BasicAgent.get_relevant_memories                                        *)
(***************************************************************************)
DefaultLimit == 5

Matches(m, context) ==
  LET needle == Lower(Chars(context))
  IN  \/ Contains(Lower(StrData(m.data)), needle)
      \/ Contains(Lower(Text(m.outcome)), needle)

\* Where sorted(..., reverse=True) puts x among the already sorted entries:
\* before the first entry that is older (the sort is stable).
\* A faulty order: the entry goes to the end, as it was remembered.
InsertLast(sorted, x) == Append(sorted, x)

RECURSIVE InsertByRecency(_, _)
InsertByRecency(sorted, x) ==
  IF sorted = <<>> THEN <<x>>
  ELSE IF Head(sorted).timestamp < x.timestamp THEN <<x>> \o sorted
  ELSE <<Head(sorted)>> \o InsertByRecency(Tail(sorted), x)

RECURSIVE SortedByRecency(_)
SortedByRecency(ms) ==
  IF ms = <<>> THEN <<>>
  ELSE InsertByRecency(SortedByRecency(SubSeq(ms, 1, Len(ms) - 1)), ms[Len(ms)])

\* The slice s[:limit].
Slice(s, limit) ==
  IF limit >= 0 THEN SubSeq(s, 1, IF limit < Len(s) THEN limit ELSE Len(s))
  ELSE SubSeq(s, 1, Len(s) + limit)

GetRelevantMemories(mem, context, limit) ==
  LET relevant_memories == SelectSeq(mem, LAMBDA m : Matches(m, context))
  IN  Slice(SortedByRecency(relevant_memories), limit)

(***************************************************************************)
(* BasicAgent._check_goal_completion                                       *)
(***************************************************************************)
\* A faulty threshold, which takes a satisfaction of 7.
SatisfiedFromSeven(m) ==
  m.satisfaction # None /\ m.satisfaction[1] # 0 /\ m.satisfaction[1] >= 7

\* memory.satisfaction and memory.satisfaction > 7
Satisfied(m) ==
  m.satisfaction # None /\ m.satisfaction[1] # 0 /\ m.satisfaction[1] > 7

\* A faulty check, which removes a goal it finds completed.
CompletedGoalsRemoved(gs, mem) ==
  SelectSeq(gs,
            LAMBDA g :
              ~\E k \in 1..Len(GetRelevantMemories(mem, g.type, DefaultLimit)) :
                 Satisfied(GetRelevantMemories(mem, g.type, DefaultLimit)[k]))

CheckGoalCompletion(gs, mem) ==
  [i \in 1..Len(gs) |->
     IF gs[i].completed THEN gs[i]
     ELSE LET relevant_memories == GetRelevantMemories(mem, gs[i].type, DefaultLimit)
          IN  IF \E k \in 1..Len(relevant_memories) : Satisfied(relevant_memories[k])
              THEN [gs[i] EXCEPT !.completed = TRUE]
              ELSE gs[i]]

(***************************************************************************)
(* BasicAgent.remember and BasicAgent.execute_action                       *)
(***************************************************************************)
\* datetime.now() at a new entry: never before the newest entry's reading.
\* Timestamps allows the same reading again, LaterTimestamps is a clock that
\* has advanced since.
LastTimestamp(mem) == IF mem = <<>> THEN 0 ELSE mem[Len(mem)].timestamp

LaterTimestamps(mem) == {LastTimestamp(mem) + 1}

Timestamps(mem) ==
  IF mem = <<>> THEN LaterTimestamps(mem)
  ELSE {LastTimestamp(mem)} \cup LaterTimestamps(mem)

\* A faulty test, which lets every tool name through to the call.
NeverMissing(tls, tool_needed) == tool_needed # None

\* `action.tool_needed not in self.tools` is false.
Registered(tls, tool_needed) == tool_needed[1] \in DOMAIN tls

\* self.tools[action.tool_needed](action.parameters), inside the try block:
\* a missing key raises KeyError there.
CallTool(tls, action) ==
  IF action.tool_needed[1] \in DOMAIN tls
  THEN Invoke(tls[action.tool_needed[1]], action.parameters)
  ELSE [raised |-> TRUE, text |-> <<"'", action.tool_needed[1], "'">>]

SuccessEntry(action, result, t) ==
  MemoryEntry("action_execution", ExecutionData(action),
              <<"Success: ">> \o result, Some(8), t)

\* A faulty entry, which records a failure with the satisfaction of a success.
FailureEntryAsSuccess(action, message, t) ==
  MemoryEntry("action_execution", ExecutionData(action),
              <<"Error: ">> \o message, Some(8), t)

FailureEntry(action, message, t) ==
  MemoryEntry("action_execution", ExecutionData(action),
              <<"Error: ">> \o message, Some(2), t)

\* What execute_action returns and the memory it leaves.  The marks of the
\* returned strings are written (ok) and (x).
ExecuteActionResult(tls, mem, action, t) ==
  IF action.tool_needed = None \/ action.tool_needed = Some("")
  THEN [memory |-> mem, kind |-> "no_tool_needed", invoked |-> FALSE,
        text |-> <<"No tool needed for ", action.type>>]
  ELSE IF ~Registered(tls, action.tool_needed)
  THEN [memory |-> mem, kind |-> "not_available", invoked |-> FALSE,
        text |-> <<"(x) Tool '", action.tool_needed[1], "' not available">>]
  ELSE LET call == CallTool(tls, action)
       IN  IF ~call.raised
           THEN [memory |-> Append(mem, SuccessEntry(action, call.text, t)),
                 kind |-> "success", invoked |-> TRUE,
                 text |-> <<"(ok) ", action.type, ": ">> \o call.text]
           ELSE [memory |-> Append(mem, FailureEntry(action, call.text, t)),
                 kind |-> "error", invoked |-> TRUE,
                 text |-> <<"(x) ", action.type, ": ", "Error: ">> \o call.text]

\* The last call, its arguments and what it returned.
Call(op, action, kind, text, invoked, args, result) ==
  [op |-> op, action |-> action, kind |-> kind, text |-> text, invoked |-> invoked,
   args |-> args, result |-> result]

Returned(op, action, kind, text, invoked) ==
  Call(op, action, kind, text, invoked, <<>>, <<>>)

NothingReturned(op) == Returned(op, None, "none", <<>>, FALSE)

(***************************************************************************)
(* BasicAgent: the operations.                                             *)
(***************************************************************************)
AddGoal(goal_type, parameters, priority) ==
  /\ goals' = Append(goals, Goal(goal_type, parameters, priority))
  /\ ret' = NothingReturned("add_goal")
  /\ UNCHANGED <<memory, tools>>
  /\ UNCHANGED besidesAgent

AddTool(tool_name, tool_function) ==
  /\ tools' = [n \in DOMAIN tools \cup {tool_name} |->
                 IF n = tool_name THEN tool_function ELSE tools[n]]
  /\ ret' = NothingReturned("add_tool")
  /\ UNCHANGED <<goals, memory>>
  /\ UNCHANGED besidesAgent

Remember(experience_type, data, outcome, satisfaction, t) ==
  /\ memory' = Append(memory,
                      MemoryEntry(experience_type, data, outcome, satisfaction, t))
  /\ ret' = NothingReturned("remember")
  /\ UNCHANGED <<goals, tools>>
  /\ UNCHANGED besidesAgent

ExecuteAction(action, t) ==
  /\ LET done == ExecuteActionResult(tools, memory, action, t)
     IN  /\ memory' = done.memory
         /\ ret' = Returned("execute_action", Some(action), done.kind, done.text,
                            done.invoked)
  /\ UNCHANGED <<goals, tools>>
  /\ UNCHANGED besidesAgent

PlanNextAction ==
  /\ ret' = Returned("plan_next_action", PlanNextActionResult(goals), "none",
                     <<>>, FALSE)
  /\ UNCHANGED <<goals, memory, tools>>
  /\ UNCHANGED besidesAgent

GetRelevantMemoriesCall(context, limit) ==
  /\ ret' = Call("get_relevant_memories", None, "none", <<>>, FALSE,
                 <<context, limit>>, GetRelevantMemories(memory, context, limit))
  /\ UNCHANGED <<goals, memory, tools>>
  /\ UNCHANGED besidesAgent

\* self.active is set at construction and never written again.
Active == TRUE

RunPlanningCycle(t) ==
  /\ IF ~Active
     THEN /\ ret' = Returned("run_planning_cycle", None, "inactive",
                             <<"Agent is not active">>, FALSE)
          /\ UNCHANGED <<goals, memory>>
     ELSE IF PlanNextActionResult(goals) = None
     THEN /\ ret' = Returned("run_planning_cycle", None, "all_completed",
                             <<"All goals completed! Agent has finished its work.">>,
                             FALSE)
          /\ UNCHANGED <<goals, memory>>
     ELSE \A next_action \in {PlanNextActionResult(goals)[1]} :
            \A done \in {ExecuteActionResult(tools, memory, next_action, t)} :
              /\ memory' = done.memory
              /\ goals' = CheckGoalCompletion(goals, done.memory)
              /\ ret' = Returned("run_planning_cycle", Some(next_action),
                                 done.kind, done.text, done.invoked)
  /\ UNCHANGED tools
  /\ UNCHANGED besidesAgent

(***************************************************************************)
(* The specifications of BasicAgent.  Each draws the arguments of the      *)
(* calls from small sets and stops appending at its bounds.                *)
(***************************************************************************)
ParamsRome == <<Item("destination", Some("Rome"))>>
GoalTypes == {"research_destination", "research"}
Priorities == 1..MaxPriority
ResearchNote == TextData(<<"Research notes">>)

\* Planning: up to MaxPlanGoals goals of either type and any priority, a tool
\* that succeeds.
NextPlan ==
  \/ \E ty \in GoalTypes, pr \in Priorities :
       Len(goals) < MaxPlanGoals /\ AddGoal(ty, ParamsRome, pr)
  \/ AddTool("web_search", "simple_search")
  \/ PlanNextAction
  \/ \E t \in LaterTimestamps(memory) :
       RunPlanningCycle(t) /\ Len(memory') <= MaxMemory

InitPlan ==
  /\ goals = <<>> /\ memory = <<>> /\ tools = <<>>
  /\ ret = NothingReturned("init")
  /\ variant = "none" /\ total_budget = 0 /\ allocated = <<>> /\ spent = <<>>
  /\ expenses = <<>> /\ alerts = <<>> /\ analyses = 0 /\ out = <<>>
  /\ trip_goals = <<>> /\ research_cache = <<>> /\ state = "none" /\ current_recommendations = <<>> /\ analysis = <<>>
  /\ research_variant = "none" /\ research_goals = <<>> /\ research_data = <<>> /\ research_out = <<>>
  /\ env_key = <<>> /\ env_base = <<>> /\ llm = <<>> /\ agent_executor = <<>> /\ current_goal = <<>> /\ last_action = <<>> /\ confidence = 0 /\ plan_out = <<>>
  /\ pc = "none" /\ steps_completed = 0 /\ next_actions = <<>> /\ research_log = <<>> /\ final_plan = <<>>
  /\ budget_result = <<>>

SpecPlan == InitPlan /\ [][NextPlan]_vars

\* The whole agent: goals, a tool that succeeds or raises, notes of every
\* satisfaction, executions with and without a registered tool, cycles.
ActionInputs ==
  { Action("research", ParamsRome, Some("web_search")),
    Action("search_hotels", ParamsRome, Some("hotel_api")),
    Action("research", ParamsRome, None) }

NextAgent ==
  \/ \E ty \in GoalTypes : Len(goals) < MaxGoals /\ AddGoal(ty, ParamsRome, 1)
  \/ \E f \in ToolFunctions : AddTool("web_search", f)
  \/ \E s \in {None, Some(7), Some(8)}, t \in LaterTimestamps(memory) :
       Len(memory) < MaxMemory /\ Remember("note", ResearchNote, <<"skipped">>, s, t)
  \/ \E a \in ActionInputs, t \in LaterTimestamps(memory) :
       ExecuteAction(a, t) /\ Len(memory') <= MaxMemory
  \/ \E t \in LaterTimestamps(memory) :
       RunPlanningCycle(t) /\ Len(memory') <= MaxMemory

InitAgent ==
  /\ goals = <<>> /\ memory = <<>> /\ tools = <<>>
  /\ ret = NothingReturned("init")
  /\ variant = "none" /\ total_budget = 0 /\ allocated = <<>> /\ spent = <<>>
  /\ expenses = <<>> /\ alerts = <<>> /\ analyses = 0 /\ out = <<>>
  /\ trip_goals = <<>> /\ research_cache = <<>> /\ state = "none" /\ current_recommendations = <<>> /\ analysis = <<>>
  /\ research_variant = "none" /\ research_goals = <<>> /\ research_data = <<>> /\ research_out = <<>>
  /\ env_key = <<>> /\ env_base = <<>> /\ llm = <<>> /\ agent_executor = <<>> /\ current_goal = <<>> /\ last_action = <<>> /\ confidence = 0 /\ plan_out = <<>>
  /\ pc = "none" /\ steps_completed = 0 /\ next_actions = <<>> /\ research_log = <<>> /\ final_plan = <<>>
  /\ budget_result = <<>>

SpecAgent == InitAgent /\ [][NextAgent]_vars

\* Retrieval: notes and executions whose texts match by data, by outcome or not
\* at all, entries that may share a timestamp, then a query.
Notes ==
  { <<ResearchNote, <<"skipped">> >>,
    <<TextData(<<"packing list">>), <<"asked the WEB_SEARCH desk">> >>,
    <<TextData(<<"packing list">>), <<"skipped">> >> }
Contexts == {"research", "Web_Search", ""}
Limits == 0..MaxLimit

NextRecall ==
  \/ \E n \in Notes, t \in Timestamps(memory) :
       Len(memory) < MaxRecall /\ Remember("note", n[1], n[2], None, t)
  \/ AddTool("web_search", "simple_search")
  \/ \E t \in Timestamps(memory) :
       /\ ExecuteAction(Action("research", ParamsRome, Some("web_search")), t)
       /\ Len(memory') <= MaxRecall
  \/ \E c \in Contexts, l \in Limits : GetRelevantMemoriesCall(c, l)

InitRecall ==
  /\ goals = <<>> /\ memory = <<>> /\ tools = <<>>
  /\ ret = NothingReturned("init")
  /\ variant = "none" /\ total_budget = 0 /\ allocated = <<>> /\ spent = <<>>
  /\ expenses = <<>> /\ alerts = <<>> /\ analyses = 0 /\ out = <<>>
  /\ trip_goals = <<>> /\ research_cache = <<>> /\ state = "none" /\ current_recommendations = <<>> /\ analysis = <<>>
  /\ research_variant = "none" /\ research_goals = <<>> /\ research_data = <<>> /\ research_out = <<>>
  /\ env_key = <<>> /\ env_base = <<>> /\ llm = <<>> /\ agent_executor = <<>> /\ current_goal = <<>> /\ last_action = <<>> /\ confidence = 0 /\ plan_out = <<>>
  /\ pc = "none" /\ steps_completed = 0 /\ next_actions = <<>> /\ research_log = <<>> /\ final_plan = <<>>
  /\ budget_result = <<>>

SpecRecall == InitRecall /\ [][NextRecall]_vars

\* The completion check on a memory longer than the default limit of
\* get_relevant_memories: one goal, notes, no tool, a clock that advances.
NextLimit ==
  \/ Len(goals) < 1 /\ AddGoal("research", ParamsRome, 1)
  \/ \E s \in {None, Some(8)}, t \in LaterTimestamps(memory) :
       Len(memory) < DefaultLimit + 1
         /\ Remember("note", ResearchNote, <<"skipped">>, s, t)
  \/ \E t \in LaterTimestamps(memory) : RunPlanningCycle(t)

InitLimit ==
  /\ goals = <<>> /\ memory = <<>> /\ tools = <<>>
  /\ ret = NothingReturned("init")
  /\ variant = "none" /\ total_budget = 0 /\ allocated = <<>> /\ spent = <<>>
  /\ expenses = <<>> /\ alerts = <<>> /\ analyses = 0 /\ out = <<>>
  /\ trip_goals = <<>> /\ research_cache = <<>> /\ state = "none" /\ current_recommendations = <<>> /\ analysis = <<>>
  /\ research_variant = "none" /\ research_goals = <<>> /\ research_data = <<>> /\ research_out = <<>>
  /\ env_key = <<>> /\ env_base = <<>> /\ llm = <<>> /\ agent_executor = <<>> /\ current_goal = <<>> /\ last_action = <<>> /\ confidence = 0 /\ plan_out = <<>>
  /\ pc = "none" /\ steps_completed = 0 /\ next_actions = <<>> /\ research_log = <<>> /\ final_plan = <<>>
  /\ budget_result = <<>>

SpecLimit == InitLimit /\ [][NextLimit]_vars

(***************************************************************************)
(* Claims about BasicAgent.                                                *)
(***************************************************************************)
Incomplete == {i \in 1..Len(goals) : ~goals[i].completed}

\* C1: plan_next_action returns None exactly when no goal is incomplete;
\* otherwise it returns the action of an incomplete goal whose priority is the
\* largest among the incomplete goals and that was added before every other
\* incomplete goal of that priority.  A completed goal is never the one.
C1_PlanPicksFirstHighestIncomplete ==
  ret.op = "plan_next_action" =>
    IF Incomplete = {}
    THEN ret.action = None
    ELSE \E i \in Incomplete :
           /\ \A j \in Incomplete : goals[j].priority <= goals[i].priority
           /\ \A j \in Incomplete : j < i => goals[j].priority < goals[i].priority
           /\ ret.action = Some(CreateActionForGoal(goals[i]))

\* C1 witness: a completed goal of the highest priority is followed by two
\* incomplete goals that tie and whose actions differ, and plan_next_action
\* has answered.
C1_Witness ==
  /\ Len(goals) = 3
  /\ goals[1].completed /\ ~goals[2].completed /\ ~goals[3].completed
  /\ goals[1].priority > goals[2].priority
  /\ goals[2].priority = goals[3].priority
  /\ goals[2].type # goals[3].type
  /\ ret.op = "plan_next_action" /\ ret.action # None

HighSatisfaction(m) == m.satisfaction # None /\ m.satisfaction[1] > 7

\* C3: as long as no memory entry carries a satisfaction above 7, every goal
\* is incomplete, whatever calls were made.
C3_NoHighSatisfactionNoCompletion ==
  (\A k \in 1..Len(memory) : ~HighSatisfaction(memory[k]))
    => \A i \in 1..Len(goals) : ~goals[i].completed

\* C3 witness: after a cycle whose tool raised, the memory holds a matching
\* note of satisfaction exactly 7 and the failed execution, and the goal of
\* the matching type is incomplete.
C3_Witness ==
  /\ ret.op = "run_planning_cycle" /\ ret.kind = "error"
  /\ \A k \in 1..Len(memory) : ~HighSatisfaction(memory[k])
  /\ \E k \in 1..Len(memory) : memory[k].satisfaction = Some(7)
  /\ \E i \in 1..Len(goals) :
       /\ ~goals[i].completed
       /\ \A k \in 1..Len(memory) : Matches(memory[k], goals[i].type)

\* C5: execute_action for an action whose tool is not registered returns the
\* 'not available' sentinel, calls no tool, appends no memory entry and leaves
\* the goals as they are.
C5_UnregisteredToolChangesNothing ==
  [][(/\ ret'.op = "execute_action"
      /\ ret'.action[1].tool_needed # None
      /\ ret'.action[1].tool_needed[1] \notin DOMAIN tools)
     => /\ ret'.kind = "not_available"
        /\ ret'.text = <<"(x) Tool '", ret'.action[1].tool_needed[1], "' not available">>
        /\ ~ret'.invoked
        /\ memory' = memory
        /\ goals' = goals]_vars

\* C5 witness: the sentinel was returned while another tool is registered, the
\* memory is not empty and a goal exists.
C5_Witness ==
  /\ ret.op = "execute_action" /\ ret.kind = "not_available"
  /\ DOMAIN tools # {}
  /\ memory # <<>>
  /\ goals # <<>>

\* The entry execute_action is to append for a call that raised or returned.
ExecutionRecorded(before, after, action, prefix, text, satisfaction) ==
  /\ Len(after) = Len(before) + 1
  /\ SubSeq(after, 1, Len(before)) = before
  /\ after[Len(after)].type = "action_execution"
  /\ after[Len(after)].data = ExecutionData(action)
  /\ after[Len(after)].outcome = <<prefix>> \o text
  /\ after[Len(after)].satisfaction = Some(satisfaction)

\* C6: when the registered tool raises, execute_action returns the formatted
\* error string and appends exactly one entry, of satisfaction 2 and with the
\* error text as outcome; when the tool returns, it appends exactly one entry
\* of satisfaction 8.
C6_ExecutionRecordsOneEntry ==
  [][(/\ ret'.op = "execute_action"
      /\ ret'.action[1].tool_needed # None
      /\ ret'.action[1].tool_needed[1] \in DOMAIN tools)
     => LET action == ret'.action[1]
            call == Invoke(tools[action.tool_needed[1]], action.parameters)
        IN  IF call.raised
            THEN /\ ExecutionRecorded(memory, memory', action, "Error: ", call.text, 2)
                 /\ ret'.kind = "error"
                 /\ ret'.text = <<"(x) ", action.type, ": ", "Error: ">> \o call.text
            ELSE /\ ExecutionRecorded(memory, memory', action, "Success: ", call.text, 8)
                 /\ ret'.kind = "success"
                 /\ ret'.text = <<"(ok) ", action.type, ": ">> \o call.text]_vars

\* C6 witness: a call that raised was recorded after one that returned.
C6_Witness ==
  /\ ret.op = "execute_action" /\ ret.kind = "error"
  /\ Len(memory) = 2
  /\ memory[1].satisfaction = Some(8) /\ memory[1].type = "action_execution"
  /\ memory[2].satisfaction = Some(2)

\* `context in text`, whatever the case of the letters.
OccursIgnoringCase(text, context) ==
  LET t == Lower(text)
      c == Lower(context)
  IN  \E i \in 0..(Len(t) - Len(c)) : \A k \in 1..Len(c) : t[i + k] = c[k]

Relevant(m, context) ==
  \/ OccursIgnoringCase(StrData(m.data), Chars(context))
  \/ OccursIgnoringCase(Text(m.outcome), Chars(context))

Min(a, b) == IF a < b THEN a ELSE b

\* How many entries of a sequence are equal to m.
Copies(ms, m) == Cardinality({i \in 1..Len(ms) : ms[i] = m})

\* C4: get_relevant_memories(context, limit) returns only entries whose
\* stringified data or outcome contains context whatever the case, ordered
\* from the most recent timestamp to the oldest, as many as match up to limit,
\* none of them older than a matching entry it leaves out; the memory is as
\* before.
RecalledMostRecentFirst(mem, matching, limit, result) ==
  /\ Len(result) = Min(limit, Len(matching))
  /\ \A i \in 1..Len(result) : \A j \in 1..Len(result) :
       i < j => result[i].timestamp >= result[j].timestamp
  /\ \A i \in 1..Len(result) :
       Copies(result, result[i]) <= Copies(matching, result[i])
  /\ \A k \in 1..Len(matching) :
       Copies(result, matching[k]) < Copies(matching, matching[k]) =>
         \A i \in 1..Len(result) : matching[k].timestamp <= result[i].timestamp

C4_RelevantMemoriesMostRecentFirst ==
  [][ret'.op = "get_relevant_memories" =>
       /\ memory' = memory
       /\ \A matching \in {SelectSeq(memory, LAMBDA m : Relevant(m, ret'.args[1]))} :
            RecalledMostRecentFirst(memory, matching, ret'.args[2], ret'.result)]_vars

\* C4 witness: a query that matched one entry by its data alone and a more
\* recent one by its outcome alone, did not match a third, and returned only
\* the more recent of the two matches.
C4_Witness ==
  /\ ret.op = "get_relevant_memories"
  /\ ret.args[1] # "" /\ ret.args[2] = 1
  /\ Len(ret.result) = 1
  /\ \E a \in 1..Len(memory) : \E b \in 1..Len(memory) : \E c \in 1..Len(memory) :
       /\ Contains(Lower(StrData(memory[a].data)), Lower(Chars(ret.args[1])))
       /\ ~Contains(Lower(Text(memory[a].outcome)), Lower(Chars(ret.args[1])))
       /\ Contains(Lower(Text(memory[b].outcome)), Lower(Chars(ret.args[1])))
       /\ ~Contains(Lower(StrData(memory[b].data)), Lower(Chars(ret.args[1])))
       /\ ~Matches(memory[c], ret.args[1])
       /\ memory[a].timestamp < memory[b].timestamp
       /\ ret.result[1] = memory[b]
       /\ ~Contains(StrData(memory[a].data), Chars(ret.args[1]))

\* C2: after a run_planning_cycle that planned an action, every goal whose
\* type occurs, whatever the case, in the stringified data or the outcome of
\* any memory entry of satisfaction above 7 is completed, and only such goals
\* are.
C2_AnyHighMatchCompletes ==
  (ret.op = "run_planning_cycle" /\ ret.action # None) =>
    \A i \in 1..Len(goals) :
      goals[i].completed <=>
        \E k \in 1..Len(memory) :
          Relevant(memory[k], goals[i].type) /\ HighSatisfaction(memory[k])

\* A goal as it was created: its type, parameters and priority.
Created(goal) ==
  [type |-> goal.type, parameters |-> goal.parameters, priority |-> goal.priority]

\* C20: the goal list and the memory list only grow by appending: no entry is
\* removed, reordered or replaced; the type, parameters and priority of a goal
\* never change, and its completed flag goes from false to true only.
C20_GoalsAndMemoryOnlyGrow ==
  [][/\ Len(goals') >= Len(goals)
     /\ Len(memory') >= Len(memory)
     /\ \A i \in 1..Len(goals) :
          /\ Created(goals'[i]) = Created(goals[i])
          /\ goals[i].completed => goals'[i].completed
     /\ \A k \in 1..Len(memory) : memory'[k] = memory[k]]_vars

\* Two goals and two memory entries, a note and an execution; the cycle has
\* completed one goal and the other is still open.
C20_Witness ==
  /\ Len(goals) = 2 /\ Len(memory) = 2
  /\ ret.op = "run_planning_cycle"
  /\ memory[1].type = "note" /\ memory[2].type = "action_execution"
  /\ \E i, j \in 1..Len(goals) : goals[i].completed /\ ~goals[j].completed

(***************************************************************************)
(* BudgetPlannerAgent.  variant tells the two classes apart: "planner" is  *)
(* budget_planner_agent.py, "specialized" is 04-specialized-agents.py.     *)
(* Money is counted in units of 1/2400 of a dollar, in which the shares,   *)
(* the adjustments, their split over up to four categories and half of a   *)
(* slack are all whole numbers; the representation error of binary         *)
(* floating point is not modelled.  The description and the date of an     *)
(* expense are only stored and printed; they are left out.                 *)
(***************************************************************************)
MaxExpenses == 3
MaxAnalyses == 1

UnitsPerDollar == 24 * 100
UnitsPerCent == UnitsPerDollar \div 100

Dollars(n) == n * UnitsPerDollar

\* The keys of self.categories, in the order of the dictionary.
CategoryOrder == <<"accommodation", "food", "activities", "transport", "shopping">>
Categories == {CategoryOrder[i] : i \in 1..Len(CategoryOrder)}

\* A faulty table of shares, which gives out more than the whole budget.
DefaultPctOverdrawn(category) ==
  CASE category = "accommodation" -> 35
    [] category = "food" -> 25
    [] category = "activities" -> 20
    [] category = "transport" -> 15
    [] category = "shopping" -> 10

\* default_pct, in hundredths.
DefaultPct(category) ==
  CASE category = "accommodation" -> 35
    [] category = "food" -> 25
    [] category = "activities" -> 20
    [] category = "transport" -> 15
    [] category = "shopping" -> 5

\* The declared priority of a category (budget_planner_agent.py only).
CategoryPriority(category) ==
  CASE category = "accommodation" -> "high"
    [] category = "food" -> "high"
    [] category = "activities" -> "medium"
    [] category = "transport" -> "high"
    [] category = "shopping" -> "low"

\* self.total_budget * pct for pct in hundredths, in units.
Share(total, pct) == total * pct * UnitsPerCent

\* _calculate_initial_allocation
InitialAllocation(total) == [c \in Categories |-> Share(total, DefaultPct(c))]

RECURSIVE SumOver(_, _)
SumOver(f, cats) ==
  IF cats = <<>> THEN 0 ELSE f[Head(cats)] + SumOver(f, Tail(cats))

(***************************************************************************)
(* _calculate_priority_adjustments                                         *)
(***************************************************************************)
\* priority_mappings: the category and the share, in hundredths, of a tag;
\* None for a tag that is not in the table.
PriorityMapping(v, tag) ==
  IF v = "planner"
  THEN CASE tag = "luxury_accommodation" -> Some(<<"accommodation", 15>>)
         [] tag = "food_experience" -> Some(<<"food", 12>>)
         [] tag = "activity_focused" -> Some(<<"activities", 15>>)
         [] tag = "shopping_trip" -> Some(<<"shopping", 8>>)
         [] tag = "budget_conscious" -> Some(<<"food", -8>>)
         [] tag = "backpacker_style" -> Some(<<"accommodation", -15>>)
         [] tag = "cultural_immersion" -> Some(<<"activities", 10>>)
         [] tag = "adventure_travel" -> Some(<<"activities", 12>>)
         [] tag = "romantic_getaway" -> Some(<<"food", 8>>)
         [] OTHER -> None
  ELSE CASE tag = "luxury_accommodation" -> Some(<<"accommodation", 15>>)
         [] tag = "food_experience" -> Some(<<"food", 12>>)
         [] tag = "activity_focused" -> Some(<<"activities", 15>>)
         [] tag = "budget_conscious" -> Some(<<"food", -8>>)
         [] tag = "cultural_immersion" -> Some(<<"activities", 10>>)
         [] OTHER -> None

\* The loop over priorities.
RECURSIVE TaggedAdjustments(_, _, _, _)
TaggedAdjustments(v, total, priorities, adjustments) ==
  IF priorities = <<>> THEN adjustments
  ELSE LET mapping == PriorityMapping(v, Head(priorities))
       IN  TaggedAdjustments(v, total, Tail(priorities),
             IF mapping = None THEN adjustments
             ELSE [adjustments EXCEPT
                     ![mapping[1][1]] = @ + Share(total, mapping[1][2])])

\* A faulty total, which lets the lowered categories cancel the raised ones.
TotalOfAll(adjustments, cats) ==
  adjustments["accommodation"] + adjustments["food"] + adjustments["activities"]
    + adjustments["transport"] + adjustments["shopping"]

\* sum(adj for adj in adjustments.values() if adj > 0)
RECURSIVE TotalPositive(_, _)
TotalPositive(adjustments, cats) ==
  IF cats = <<>> THEN 0
  ELSE (IF adjustments[Head(cats)] > 0 THEN adjustments[Head(cats)] ELSE 0)
       + TotalPositive(adjustments, Tail(cats))

\* [c for c in adjustments if adjustments[c] <= 0]
NotRaised(adjustments) == SelectSeq(CategoryOrder, LAMBDA c : adjustments[c] <= 0)

\* The balancing loop of budget_planner_agent.py: the categories in order,
\* those at or below zero counted anew for each of them.
RECURSIVE BalancedInLoop(_, _, _)
BalancedInLoop(adjustments, total_positive, cats) ==
  IF cats = <<>> THEN adjustments
  ELSE BalancedInLoop(
         IF adjustments[Head(cats)] <= 0
         THEN [adjustments EXCEPT
                 ![Head(cats)] = @ - (total_positive \div Len(NotRaised(adjustments)))]
         ELSE adjustments,
         total_positive, Tail(cats))

\* The balancing of 04-specialized-agents.py: the categories at or below zero
\* are listed once and each gives up the same amount.
BalancedAtOnce(adjustments, total_positive) ==
  LET negative_categories == NotRaised(adjustments)
  IN  IF negative_categories = <<>> THEN adjustments
      ELSE [c \in Categories |->
              IF adjustments[c] <= 0
              THEN adjustments[c] - (total_positive \div Len(negative_categories))
              ELSE adjustments[c]]

CalculatePriorityAdjustments(v, total, priorities) ==
  LET adjustments == TaggedAdjustments(v, total, priorities, [c \in Categories |-> 0])
      total_positive == TotalPositive(adjustments, CategoryOrder)
  IN  IF total_positive > 0
      THEN IF v = "planner"
           THEN BalancedInLoop(adjustments, total_positive, CategoryOrder)
           ELSE BalancedAtOnce(adjustments, total_positive)
      ELSE adjustments

(***************************************************************************)
(* analyze_budget_distribution                                             *)
(***************************************************************************)
Abs(x) == IF x < 0 THEN -x ELSE x

\* A faulty choice, which takes the first category whatever its allocation.
FirstCategory(f, cats, best) == best

\* max(adjusted_allocations, key=adjusted_allocations.get): the first category
\* with the largest allocation.
RECURSIVE LargestCategory(_, _, _)
LargestCategory(f, cats, best) ==
  IF cats = <<>> THEN best
  ELSE LargestCategory(f, Tail(cats),
                       IF f[Head(cats)] > f[best] THEN Head(cats) ELSE best)

AdjustedAllocations(v, total, alloc, priorities) ==
  LET adjustments == CalculatePriorityAdjustments(v, total, priorities)
      raw == [c \in Categories |-> alloc[c] + adjustments[c]]
      total_adjustment == SumOver(adjustments, CategoryOrder)
  IN  IF v = "planner"
      THEN IF Abs(total_adjustment) > UnitsPerCent
           THEN [raw EXCEPT
                   ![LargestCategory(raw, Tail(CategoryOrder), Head(CategoryOrder))]
                     = @ - total_adjustment]
           ELSE raw
      ELSE [c \in Categories |-> IF raw[c] > 0 THEN raw[c] ELSE 0]

\* What analyze_budget_distribution leaves as allocations and returns.  `not
\* priorities` holds of None and of the empty list, both written <<>>.
AnalyzedAllocations(v, total, alloc, priorities) ==
  IF priorities = <<>> THEN alloc
  ELSE AdjustedAllocations(v, total, alloc, priorities)

(***************************************************************************)
(* Formatting of amounts: f"{x:.2f}", f"{x:.1f}" and f"{x:.0f}" round to   *)
(* the nearest, a tie to the even digit.                                   *)
(***************************************************************************)
\* The cents that f"{x:.2f}" shows.
Fmt2(x) == RoundHalfEven(x, UnitsPerCent)

\* The dollars that f"{x:.0f}" shows.
Fmt0(x) == RoundHalfEven(x, UnitsPerDollar)

\* The tenths of a percent that f"{remaining_pct:.1f}" shows.
RemainingPctShown(remaining, allocation) ==
  IF allocation > 0 THEN RoundHalfEven(remaining * 1000, allocation) ELSE 0

\* remaining_pct < 20
RunningLow(remaining, allocation) ==
  IF allocation > 0 THEN remaining * 100 < 20 * allocation ELSE TRUE

(***************************************************************************)
(* _suggest_budget_reallocation (budget_planner_agent.py)                  *)
(***************************************************************************)
\* priority_order.get(priority, 1)
PriorityOrder(priority) ==
  CASE priority = "low" -> 0
    [] priority = "medium" -> 1
    [] priority = "high" -> 2
    [] OTHER -> 1

\* The categories other than the overspent one with allocated - spent > 0.
AvailableCategories(alloc, sp, overspent_category) ==
  SelectSeq(CategoryOrder,
            LAMBDA c : c # overspent_category /\ alloc[c] - sp[c] > 0)

\* list.sort(key=...) is stable: a category goes behind those of its rank.
InsertByPriority(cat, sorted) ==
  LET behind == {i \in 1..Len(sorted) :
                   PriorityOrder(CategoryPriority(sorted[i]))
                     > PriorityOrder(CategoryPriority(cat))}
      at == IF behind = {} THEN Len(sorted) + 1
            ELSE CHOOSE i \in behind : \A j \in behind : i <= j
  IN  SubSeq(sorted, 1, at - 1) \o <<cat>> \o SubSeq(sorted, at, Len(sorted))

RECURSIVE SortedByPriority(_)
SortedByPriority(cats) ==
  IF cats = <<>> THEN <<>>
  ELSE InsertByPriority(cats[Len(cats)],
                        SortedByPriority(SubSeq(cats, 1, Len(cats) - 1)))

\* A faulty share: the whole slack of a category.
WholeSlack(available) == available

\* available * 0.5
HalfSlack(available) == available \div 2

Smaller(a, b) == IF a <= b THEN a ELSE b

\* can_reallocate >= 10
Meaningful(can_reallocate) == can_reallocate >= Dollars(10)

Suggestion(cat, can_reallocate) ==
  [category |-> cat, amount |-> can_reallocate, shown |-> Fmt0(can_reallocate)]

\* The loop over available_categories.
RECURSIVE SuggestionWalk(_, _, _, _, _)
SuggestionWalk(cats, alloc, sp, remaining_to_cover, suggestions) ==
  IF cats = <<>> \/ remaining_to_cover <= 0 THEN suggestions
  ELSE LET cat == Head(cats)
           can_reallocate == Smaller(HalfSlack(alloc[cat] - sp[cat]),
                                     remaining_to_cover)
       IN  IF Meaningful(can_reallocate)
           THEN SuggestionWalk(Tail(cats), alloc, sp,
                               remaining_to_cover - can_reallocate,
                               Append(suggestions, Suggestion(cat, can_reallocate)))
           ELSE SuggestionWalk(Tail(cats), alloc, sp, remaining_to_cover,
                               suggestions)

\* The suggestions joined by "; ", which are the returned text unless there is
\* none: then it is "Consider increasing total budget".
SuggestBudgetReallocation(alloc, sp, overspent_category, overspend_amount) ==
  SuggestionWalk(SortedByPriority(AvailableCategories(alloc, sp, overspent_category)),
                 alloc, sp, overspend_amount, <<>>)

(***************************************************************************)
(* track_expense                                                           *)
(***************************************************************************)
\* The record appended to self.expenses.
Expense(v, exps, category, amount) ==
  IF v = "planner"
  THEN [id |-> Some(Len(exps) + 1), category |-> category, amount |-> amount]
  ELSE [id |-> None, category |-> category, amount |-> amount]

\* A faulty log, which takes the expense before the category is looked up.
LoggedUnchecked(v, exps, category, amount) ==
  Append(exps, Expense(v, exps, category, amount))

\* self.expenses after the call: `category not in self.categories` returns
\* before anything is recorded.
Logged(v, exps, category, amount) ==
  IF category \notin Categories THEN exps
  ELSE Append(exps, Expense(v, exps, category, amount))

\* A faulty test, which takes a used-up allocation for an overrun.
NothingRemains(remaining) == remaining <= 0

\* remaining < 0
OverBudget(remaining) == remaining < 0

\* The entry appended to self.alerts: a dictionary in budget_planner_agent.py,
\* the message alone in 04-specialized-agents.py.  The message names the
\* category and the overspend to the cent.
Alert(v, category, overspend) ==
  IF v = "planner"
  THEN [type |-> "over_budget", category |-> category, amount |-> Some(overspend),
        message |-> <<category, Fmt2(overspend)>>]
  ELSE [type |-> "message", category |-> category, amount |-> None,
        message |-> <<category, Fmt2(overspend)>>]

\* What a call of the agent returned.  kind tells the branch, logged the
\* amount of the first line, overspend, remaining and remaining_pct the figures
\* of the second as printed, low the "Running low" line, suggestions the
\* proposals and advice the kind of the "Suggestions" line.
Outcome(op, category, amount, kind) ==
  [op |-> op, category |-> category, amount |-> amount, kind |-> kind,
   priorities |-> <<>>, result |-> <<>>,
   logged |-> None, overspend |-> None, remaining |-> None,
   remaining_pct |-> None, low |-> FALSE, suggestions |-> <<>>,
   advice |-> "none"]

\* The feedback of an expense that leaves the category over budget.
OverBudgetFeedback(v, alloc, sp, category, amount) ==
  LET overspend == Abs(alloc[category] - sp[category])
      suggestions == SuggestBudgetReallocation(alloc, sp, category, overspend)
  IN  [Outcome("track_expense", category, amount, "over_budget") EXCEPT
         !.logged = Some(Fmt2(amount)),
         !.overspend = Some(Fmt2(overspend)),
         !.suggestions = IF v = "planner" THEN suggestions ELSE <<>>,
         !.advice = IF v # "planner" THEN "none"
                    ELSE IF suggestions = <<>> THEN "increase_total_budget"
                    ELSE "reduce"]

\* The feedback of an expense that the allocation still covers.
RemainingFeedback(v, alloc, sp, category, amount) ==
  LET remaining == alloc[category] - sp[category]
  IN  [Outcome("track_expense", category, amount, "remaining") EXCEPT
         !.logged = Some(Fmt2(amount)),
         !.remaining = Some(Fmt2(remaining)),
         !.remaining_pct = Some(RemainingPctShown(remaining, alloc[category])),
         !.low = v = "planner" /\ RunningLow(remaining, alloc[category])]

\* A faulty update, which keeps the last amount instead of the sum.
SpentReplaced(sp, category, amount) == [sp EXCEPT ![category] = amount]

\* self.categories[category]['spent'] += amount
SpentAdded(sp, category, amount) == [sp EXCEPT ![category] = @ + amount]

\* The state track_expense leaves and what it returns.
TrackExpenseResult(v, alloc, sp, exps, als, category, amount) ==
  IF category \notin Categories
  THEN [expenses |-> Logged(v, exps, category, amount), spent |-> sp, alerts |-> als,
        out |-> Outcome("track_expense", category, amount, "unknown_category")]
  ELSE LET now_spent == SpentAdded(sp, category, amount)
           remaining == alloc[category] - now_spent[category]
       IN  IF OverBudget(remaining)
           THEN [expenses |-> Logged(v, exps, category, amount),
                 spent |-> now_spent,
                 alerts |-> Append(als, Alert(v, category, Abs(remaining))),
                 out |-> OverBudgetFeedback(v, alloc, now_spent, category, amount)]
           ELSE [expenses |-> Logged(v, exps, category, amount),
                 spent |-> now_spent,
                 alerts |-> als,
                 out |-> RemainingFeedback(v, alloc, now_spent, category, amount)]

(***************************************************************************)
(* BudgetPlannerAgent: the operations.  analyses counts the calls of       *)
(* analyze_budget_distribution that were given priorities.                 *)
(***************************************************************************)
AnalyzeBudgetDistribution(priorities) ==
  /\ allocated' = AnalyzedAllocations(variant, total_budget, allocated, priorities)
  /\ analyses' = IF priorities = <<>> THEN analyses ELSE analyses + 1
  /\ out' = [Outcome("analyze_budget_distribution", "", 0, "allocations") EXCEPT
               !.priorities = priorities,
               !.result = AnalyzedAllocations(variant, total_budget, allocated,
                                              priorities)]
  /\ UNCHANGED <<variant, total_budget, spent, expenses, alerts>>
  /\ UNCHANGED besidesBudget

TrackExpense(category, amount) ==
  /\ \A done \in {TrackExpenseResult(variant, allocated, spent, expenses, alerts,
                                     category, amount)} :
       /\ expenses' = done.expenses
       /\ spent' = done.spent
       /\ alerts' = done.alerts
       /\ out' = done.out
  /\ UNCHANGED <<variant, total_budget, allocated, analyses>>
  /\ UNCHANGED besidesBudget

(***************************************************************************)
(* The specification of BudgetPlannerAgent: either class, constructed with *)
(* a small or a larger budget, expenses in two known categories and an     *)
(* unknown one, analyses without and with priorities.                      *)
(***************************************************************************)
TotalBudgets == {100, 500}
PriorityLists ==
  { <<>>, <<"food_experience", "cultural_immersion">>, <<"budget_conscious">>,
    <<"shopping_trip">> }
ExpenseCategories == {"food", "shopping", "souvenirs"}
Amounts == {15, 25}

NextBudget ==
  \/ \E p \in PriorityLists :
       AnalyzeBudgetDistribution(p) /\ analyses' <= MaxAnalyses
  \/ \E c \in ExpenseCategories, a \in Amounts :
       TrackExpense(c, Dollars(a)) /\ Len(expenses') <= MaxExpenses

InitBudget ==
  /\ goals = <<>> /\ memory = <<>> /\ tools = <<>>
  /\ ret = NothingReturned("init")
  /\ variant \in {"planner", "specialized"}
  /\ total_budget \in TotalBudgets
  /\ allocated = InitialAllocation(total_budget)
  /\ spent = [c \in Categories |-> 0]
  /\ expenses = <<>> /\ alerts = <<>> /\ analyses = 0
  /\ out = Outcome("init", "", 0, "constructed")
  /\ trip_goals = <<>> /\ research_cache = <<>> /\ state = "none" /\ current_recommendations = <<>> /\ analysis = <<>>
  /\ research_variant = "none" /\ research_goals = <<>> /\ research_data = <<>> /\ research_out = <<>>
  /\ env_key = <<>> /\ env_base = <<>> /\ llm = <<>> /\ agent_executor = <<>> /\ current_goal = <<>> /\ last_action = <<>> /\ confidence = 0 /\ plan_out = <<>>
  /\ pc = "none" /\ steps_completed = 0 /\ next_actions = <<>> /\ research_log = <<>> /\ final_plan = <<>>
  /\ budget_result = <<>>

SpecBudget == InitBudget /\ [][NextBudget]_vars

(***************************************************************************)
(* Properties of BudgetPlannerAgent.                                       *)
(***************************************************************************)
\* A step of track_expense that recorded an expense in a known category.
ExpenseRecorded ==
  /\ out'.op = "track_expense"
  /\ out'.category \in Categories
  /\ expenses' # expenses

\* C7: in both classes the five allocations sum to total_budget after
\* construction and for as long as analyze_budget_distribution has only been
\* called without priorities, and such a call returns the allocations and
\* leaves them as they were.
C7_DefaultAllocationsSumToTotal ==
  /\ [](analyses = 0 =>
          allocated["accommodation"] + allocated["food"] + allocated["activities"]
            + allocated["transport"] + allocated["shopping"]
          = total_budget * UnitsPerDollar)
  /\ [][out'.op = "analyze_budget_distribution" /\ out'.priorities = <<>>
          => allocated' = allocated /\ out'.result = allocated]_vars

C7_Witness ==
  /\ out.op = "analyze_budget_distribution"
  /\ out.priorities = <<>>
  /\ analyses = 0
  /\ Len(expenses) > 0
  /\ DOMAIN out.result = Categories

\* C8: a track_expense call on a known category that leaves spent above the
\* allocation appends exactly one alert, for that category, and returns the
\* overspend, spent minus allocated, to the cent; a call that leaves spent at
\* or below the allocation appends none; no other step touches the alerts.
C8_OverBudgetExpenseAlertsOnce ==
  [][IF ExpenseRecorded
     THEN \A c \in {out'.category} :
            IF spent'[c] > allocated'[c]
            THEN /\ Len(alerts') = Len(alerts) + 1
                 /\ SubSeq(alerts', 1, Len(alerts)) = alerts
                 /\ alerts'[Len(alerts')].category = c
                 /\ alerts'[Len(alerts')].message
                      = <<c, RoundHalfEven(spent'[c] - allocated'[c], UnitsPerCent)>>
                 /\ out'.overspend
                      = Some(RoundHalfEven(spent'[c] - allocated'[c], UnitsPerCent))
            ELSE alerts' = alerts /\ out'.overspend = None
     ELSE alerts' = alerts]_vars

C8_Witness ==
  /\ out.op = "track_expense"
  /\ out.overspend # None
  /\ Len(alerts) = 1
  /\ Len(expenses) > 1
  /\ spent[out.category] > allocated[out.category]

\* C9: track_expense with a category that is not one of the five returns the
\* 'Unknown category' text and leaves the expenses, every spent and allocated
\* amount and the alerts as they were.
C9_UnknownCategoryChangesNothing ==
  [][out'.op = "track_expense" /\ out'.category \notin Categories
       => /\ out'.kind = "unknown_category"
          /\ expenses' = expenses
          /\ spent' = spent
          /\ allocated' = allocated
          /\ alerts' = alerts]_vars

C9_Witness ==
  /\ out.op = "track_expense"
  /\ out.kind = "unknown_category"
  /\ out.category \notin Categories
  /\ Len(expenses) > 0
  /\ Len(alerts) > 0

\* The order of the reallocation walk: low before medium before high, and the
\* order of the dictionary within a priority.
ReallocationRank(c) ==
  CASE CategoryPriority(c) = "low" -> 0
    [] CategoryPriority(c) = "medium" -> 1
    [] CategoryPriority(c) = "high" -> 2

Position(c) == CHOOSE i \in 1..Len(CategoryOrder) : CategoryOrder[i] = c

WalkedBefore(x, y) ==
  \/ ReallocationRank(x) < ReallocationRank(y)
  \/ ReallocationRank(x) = ReallocationRank(y) /\ Position(x) < Position(y)

RECURSIVE ProposedTotal(_)
ProposedTotal(proposals) ==
  IF proposals = <<>> THEN 0
  ELSE Head(proposals).amount + ProposedTotal(Tail(proposals))

\* The overspend that the proposals made before the walk reaches x leave
\* uncovered.
Uncovered(proposals, overspend, x) ==
  overspend
    - ProposedTotal(SelectSeq(proposals, LAMBDA p : WalkedBefore(p.category, x)))

\* What the proposals have in common in the claim as stated and as corrected:
\* they are made for other categories with slack, in the order of the walk,
\* each of min(50% of the slack, overspend still uncovered), they total at
\* most the overspend, and the amounts of the agent are those of the expense.
ProposalsWalk(alloc, before, sp, c, amount, proposals) ==
  /\ \A i \in 1..Len(proposals) :
       /\ proposals[i].category \in Categories \ {c}
       /\ alloc[proposals[i].category] - sp[proposals[i].category] > 0
       /\ 2 * proposals[i].amount
            = Smaller(alloc[proposals[i].category] - sp[proposals[i].category],
                      2 * Uncovered(proposals, sp[c] - alloc[c],
                                    proposals[i].category))
       /\ \A j \in 1..Len(proposals) :
            i < j => WalkedBefore(proposals[i].category, proposals[j].category)
  /\ ProposedTotal(proposals) <= sp[c] - alloc[c]
  /\ sp = [before EXCEPT ![c] = @ + amount]

Proposed(proposals, x) == \E i \in 1..Len(proposals) : proposals[i].category = x

\* The claim as stated: every other category with slack that the walk reaches
\* before the overspend is covered is proposed.
ProposalsForEverySlack(alloc, sp, c, proposals) ==
  \A x \in Categories \ {c} :
    alloc[x] - sp[x] > 0 =>
      (Proposed(proposals, x) <=> Uncovered(proposals, sp[c] - alloc[c], x) > 0)

\* The claim as corrected: of those, the categories are proposed whose
\* min(50% of the slack, overspend still uncovered) is at least 10.
ProposalsOfTenOrMore(alloc, sp, c, proposals) ==
  \A x \in Categories \ {c} :
    alloc[x] - sp[x] > 0 =>
      (Proposed(proposals, x) <=>
         /\ Uncovered(proposals, sp[c] - alloc[c], x) > 0
         /\ Smaller(alloc[x] - sp[x],
                    2 * Uncovered(proposals, sp[c] - alloc[c], x))
              >= 2 * 10 * UnitsPerDollar)

\* A step of track_expense of budget_planner_agent.py that left the category
\* over budget.
OverBudgetRecorded ==
  ExpenseRecorded /\ variant = "planner" /\ out'.kind = "over_budget"

\* C10, corrected: when track_expense of budget_planner_agent.py leaves a
\* category over budget, the suggestion walks the other categories with
\* positive slack in the order low, medium, high, computes for each min(50% of
\* its slack, overspend still uncovered) and proposes it only if it is at
\* least 10, otherwise passing on to the next category with nothing covered;
\* it stops when the overspend is covered or the categories are exhausted.
\* The overspent category is never proposed, the proposals total at most the
\* overspend, and no allocation or spent amount is changed by the suggestion.
C10_ReallocationProposesTenOrMore ==
  [][OverBudgetRecorded =>
       /\ allocated' = allocated
       /\ \A c \in {out'.category} : \A proposals \in {out'.suggestions} :
            /\ ProposalsWalk(allocated', spent, spent', c, out'.amount, proposals)
            /\ ProposalsOfTenOrMore(allocated', spent', c, proposals)]_vars

\* Two proposals, and a category with slack that the walk passed over.
C10_Witness ==
  /\ variant = "planner"
  /\ out.kind = "over_budget"
  /\ Len(out.suggestions) >= 2
  /\ \E x \in Categories \ {out.category} :
       /\ allocated[x] - spent[x] > 0
       /\ ~Proposed(out.suggestions, x)
       /\ WalkedBefore(x, out.suggestions[1].category)

\* C10 as stated: every category with positive slack that the walk reaches
\* with some overspend uncovered is proposed min(50% of its slack, overspend
\* still uncovered).
C10_ReallocationProposesForEverySlack ==
  [][OverBudgetRecorded =>
       /\ allocated' = allocated
       /\ \A c \in {out'.category} : \A proposals \in {out'.suggestions} :
            /\ ProposalsWalk(allocated', spent, spent', c, out'.amount, proposals)
            /\ ProposalsForEverySlack(allocated', spent', c, proposals)]_vars

(***************************************************************************)
(* The analyses on their own: _calculate_priority_adjustments called by    *)
(* itself, and analyze_budget_distribution called again and again with     *)
(* lists of recognised tags, raising and lowering, and of a tag that is    *)
(* not in the table.                                                       *)
(***************************************************************************)
MaxRounds == 2

CalculatePriorityAdjustmentsCall(priorities) ==
  /\ out' = [Outcome("_calculate_priority_adjustments", "", 0, "adjustments") EXCEPT
               !.priorities = priorities,
               !.result = CalculatePriorityAdjustments(variant, total_budget,
                                                       priorities)]
  /\ UNCHANGED <<variant, total_budget, allocated, spent, expenses, alerts, analyses>>
  /\ UNCHANGED besidesBudget

TagLists ==
  { <<"food_experience">>, <<"beach_holiday">>,
    <<"budget_conscious">>, <<"backpacker_style">>,
    <<"food_experience", "budget_conscious">>,
    <<"luxury_accommodation", "budget_conscious", "beach_holiday">>,
    <<"cultural_immersion", "food_experience", "food_experience">>,
    <<"backpacker_style", "budget_conscious">> }

NextAnalysis ==
  \/ \E p \in TagLists \cup {<<>>} :
       AnalyzeBudgetDistribution(p) /\ analyses' <= MaxRounds
  \/ \E p \in TagLists : CalculatePriorityAdjustmentsCall(p)

InitAnalysis ==
  /\ goals = <<>> /\ memory = <<>> /\ tools = <<>>
  /\ ret = NothingReturned("init")
  /\ variant \in {"planner", "specialized"}
  /\ total_budget \in TotalBudgets
  /\ allocated = InitialAllocation(total_budget)
  /\ spent = [c \in Categories |-> 0]
  /\ expenses = <<>> /\ alerts = <<>> /\ analyses = 0
  /\ out = Outcome("init", "", 0, "constructed")
  /\ trip_goals = <<>> /\ research_cache = <<>> /\ state = "none" /\ current_recommendations = <<>> /\ analysis = <<>>
  /\ research_variant = "none" /\ research_goals = <<>> /\ research_data = <<>> /\ research_out = <<>>
  /\ env_key = <<>> /\ env_base = <<>> /\ llm = <<>> /\ agent_executor = <<>> /\ current_goal = <<>> /\ last_action = <<>> /\ confidence = 0 /\ plan_out = <<>>
  /\ pc = "none" /\ steps_completed = 0 /\ next_actions = <<>> /\ research_log = <<>> /\ final_plan = <<>>
  /\ budget_result = <<>>

SpecAnalysis == InitAnalysis /\ [][NextAnalysis]_vars

(***************************************************************************)
(* Properties of the analyses.                                             *)
(***************************************************************************)
\* The tabled delta of a tag for a category, in hundredths; 0 for a tag that
\* is not in the table or is tabled for another category.
TagDelta(v, tag, c) ==
  IF PriorityMapping(v, tag) # None /\ PriorityMapping(v, tag)[1][1] = c
  THEN PriorityMapping(v, tag)[1][2]
  ELSE 0

\* total_budget times the deltas of the tags of a category.
RECURSIVE Tagged(_, _, _, _)
Tagged(v, total, priorities, c) ==
  IF priorities = <<>> THEN 0
  ELSE total * TagDelta(v, Head(priorities), c) * UnitsPerCent
       + Tagged(v, total, Tail(priorities), c)

\* total_budget times the negative deltas of the tags.
RECURSIVE NegativeTags(_, _, _)
NegativeTags(v, total, priorities) ==
  IF priorities = <<>> THEN 0
  ELSE LET delta == TagDelta(v, Head(priorities), "accommodation")
                      + TagDelta(v, Head(priorities), "food")
                      + TagDelta(v, Head(priorities), "activities")
                      + TagDelta(v, Head(priorities), "transport")
                      + TagDelta(v, Head(priorities), "shopping")
       IN  (IF delta < 0 THEN total * delta * UnitsPerCent ELSE 0)
           + NegativeTags(v, total, Tail(priorities))

Total(f) ==
  f["accommodation"] + f["food"] + f["activities"] + f["transport"] + f["shopping"]

PositivePart(x) == IF x > 0 THEN x ELSE 0
NegativePart(x) == IF x < 0 THEN x ELSE 0

\* What the claim says of the balancing, as stated and as corrected: a raised
\* category keeps the sum of its tags, and the categories at or below zero
\* give up, in all, the aggregate positive adjustment when there is one and
\* nothing when there is none.
Balanced(tagged, adjustments) ==
  /\ \A c \in Categories : tagged[c] > 0 => adjustments[c] = tagged[c]
  /\ \A c \in Categories : tagged[c] <= 0 => adjustments[c] <= tagged[c]
  /\ Total(tagged) - Total(adjustments)
       = Total([c \in Categories |-> PositivePart(tagged[c])])

AdjustmentsReturned == out'.op = "_calculate_priority_adjustments"

\* C11, corrected: _calculate_priority_adjustments adds total_budget times the
\* tabled delta to the tabled category for each recognised tag, a tag that is
\* not tabled adding nothing; if the aggregate positive adjustment P is above
\* zero it subtracts amounts totalling P from the categories at or below zero
\* and leaves the raised categories untouched.  The adjustments then sum to
\* the sum of the net tagged adjustments of the categories whose net is
\* negative, which is zero when no category nets negative.
C11_AdjustmentsSumToNegativeNets ==
  [][AdjustmentsReturned =>
       \A tagged \in {[c \in Categories |->
                         Tagged(variant, total_budget, out'.priorities, c)]} :
         /\ Balanced(tagged, out'.result)
         /\ Total(out'.result)
              = Total([c \in Categories |-> NegativePart(tagged[c])])]_vars

\* A raising and a lowering tag for different categories, and an unknown tag.
C11_Witness ==
  /\ out.op = "_calculate_priority_adjustments"
  /\ out.priorities = <<"luxury_accommodation", "budget_conscious", "beach_holiday">>
  /\ out.result["accommodation"] > 0
  /\ out.result["food"] < out.result["transport"]
  /\ out.result["transport"] < 0

\* C11 as stated: the adjustments sum to total_budget times the negative
\* deltas of the tags given.
C11_AdjustmentsSumToNegativeTags ==
  [][AdjustmentsReturned =>
       \A tagged \in {[c \in Categories |->
                         Tagged(variant, total_budget, out'.priorities, c)]} :
         /\ Balanced(tagged, out'.result)
         /\ Total(out'.result)
              = NegativeTags(variant, total_budget, out'.priorities)]_vars

\* C12: a call of analyze_budget_distribution with the non-empty list of
\* priorities of the call before it leaves the allocations of that call.
C12_RepeatedAnalysisLeavesAllocations ==
  [][/\ out.op = "analyze_budget_distribution"
     /\ out'.op = "analyze_budget_distribution"
     /\ out'.priorities # <<>>
     /\ out'.priorities = out.priorities
     => allocated' = allocated]_vars

\* C13: in budget_planner_agent.py the five allocations sum to total_budget
\* after every sequence of analyses, and an analysis with priorities gives
\* each category its allocation plus its adjustment, except that a net
\* adjustment other than zero is taken back from one category, which is a
\* largest of the adjusted ones.
C13_PlannerAnalysesKeepTotal ==
  /\ [](variant = "planner" => Total(allocated) = total_budget * UnitsPerDollar)
  /\ [][variant = "planner" /\ analyses' # analyses =>
          \A adj \in {CalculatePriorityAdjustments(variant, total_budget,
                                                   out'.priorities)} :
            IF Total(adj) = 0
            THEN \A c \in Categories : allocated'[c] = allocated[c] + adj[c]
            ELSE \E largest \in Categories :
                   /\ \A c \in Categories :
                        allocated[c] + adj[c] <= allocated[largest] + adj[largest]
                   /\ allocated'[largest]
                        = allocated[largest] + adj[largest] - Total(adj)
                   /\ \A c \in Categories \ {largest} :
                        allocated'[c] = allocated[c] + adj[c]]_vars

\* Two analyses, the second with lowering tags only, after which the largest
\* category is no longer the first.
C13_Witness ==
  /\ variant = "planner"
  /\ analyses = 2
  /\ out.op = "analyze_budget_distribution"
  /\ out.priorities = <<"backpacker_style", "budget_conscious">>
  /\ \E c \in Categories : allocated[c] > allocated["accommodation"]

(***************************************************************************)
(* The books of BudgetPlannerAgent: expenses against spent.                *)
(***************************************************************************)
RECURSIVE AmountsOf(_, _)
AmountsOf(exps, cats) ==
  IF exps = <<>> THEN 0
  ELSE (IF Head(exps).category \in cats THEN Head(exps).amount ELSE 0)
       + AmountsOf(Tail(exps), cats)

BooksAgree ==
  /\ DOMAIN spent = Categories
  /\ \A c \in Categories : spent[c] = AmountsOf(expenses, {c})
  /\ AmountsOf(expenses, {expenses[i].category : i \in 1..Len(expenses)})
       = SumOver(spent, CategoryOrder)

\* One record for a call with a known category, none for another.
OneRecordForAKnownCategory ==
  (out'.op = "track_expense" /\ out' # out) =>
    Len(expenses') = Len(expenses) + (IF out'.category \in Categories THEN 1 ELSE 0)

AnalysisLeavesTheBooks ==
  out'.op = "analyze_budget_distribution" => spent' = spent /\ expenses' = expenses

\* C26: after any sequence of track_expense calls, with known and unknown
\* categories, each category's spent is the sum of the amounts of the
\* recorded expenses of that category, the amounts of all records sum to the
\* sum of the five spent values, and there is one record for each call with
\* a known category; analyze_budget_distribution changes neither spent nor
\* the list of expenses.
C26_SpentIsTheSumOfRecordedExpenses ==
  /\ [](variant \in {"planner", "specialized"} => BooksAgree)
  /\ [][OneRecordForAKnownCategory /\ AnalysisLeavesTheBooks]_vars

\* Three records in two categories, one category twice, an analysis with
\* priorities in between, and a last call with an unknown category.
C26_Witness ==
  /\ Len(expenses) = 3
  /\ expenses[1].category = expenses[3].category
  /\ expenses[2].category # expenses[1].category
  /\ spent[expenses[1].category] = expenses[1].amount + expenses[3].amount
  /\ analyses = 1
  /\ out.op = "track_expense" /\ out.kind = "unknown_category"

NonNegativeAllocations == \A c \in Categories : allocated[c] >= 0

\* C27: in budget_planner_agent.py every category's allocation is
\* non-negative after any sequence of analyze_budget_distribution calls, for
\* a positive total budget and every list of tags of the table.
C27_PlannerAllocationsNonNegative ==
  variant = "planner" => NonNegativeAllocations

\* C28: in 04-specialized-agents.py, after analyze_budget_distribution with
\* any list of tags, the five allocations are each non-negative and sum to
\* total_budget.
C28_SpecializedAllocationsKeepTotal ==
  variant = "specialized" =>
    /\ NonNegativeAllocations
    /\ Total(allocated) = total_budget * UnitsPerDollar

(***************************************************************************)
(* SimpleTravelAgent (03-simple-travel-agent.py).  Scores are counted in   *)
(* hundredths and overall_score, which is rounded to one decimal, in       *)
(* tenths.  The mock APIs draw their values at random: the forecast and    *)
(* the offset of the hotel price are inputs of the research.               *)
(***************************************************************************)
TripGoals(destinations, budget, duration, preferences, constraints) ==
  [destinations |-> destinations, budget |-> budget, duration |-> duration,
   preferences |-> preferences, constraints |-> constraints]

\* `x in list`
InList(x, list) == \E i \in 1..Len(list) : list[i] = x

\* `city.lower() in [...]`
LowerIn(city, names) == \E n \in names : Lower(Chars(city)) = Chars(n)

\* SimpleWeatherAPI.get_forecast
GetForecast(city, forecast, temperature, rainfall) ==
  [city |-> city, forecast |-> forecast, temperature |-> temperature,
   rainfall |-> rainfall]

\* base_prices.get(city.lower(), 90)
BasePrice(city) ==
  IF LowerIn(city, {"paris"}) THEN 120
  ELSE IF LowerIn(city, {"berlin"}) THEN 80
  ELSE IF LowerIn(city, {"amsterdam"}) THEN 100
  ELSE IF LowerIn(city, {"prague"}) THEN 60
  ELSE 90

\* SimplePriceAPI.get_hotel_prices; base * 0.6 and base * 2.5 are whole
\* numbers for the bases of the table.
GetHotelPrices(city, offset) ==
  [city |-> city, avg_hotel_price |-> BasePrice(city) + offset,
   budget_options |-> (BasePrice(city) * 6) \div 10,
   luxury_options |-> (BasePrice(city) * 25) \div 10]

\* A faulty base, which grows with what the agent has researched.
BaseScoreByResearch == 500 + 100 * Cardinality(DOMAIN research_cache)

\* score = 5.0
BaseScore == 500

\* A faulty clamp, without the upper end.
ClampedBelow(score) == IF score < 100 THEN 100 ELSE score

\* min(10, max(1, score))
Clamped(score) ==
  LET raised == IF score > 100 THEN score ELSE 100
  IN  IF raised < 1000 THEN raised ELSE 1000

\* round(x, 1), in tenths
Round1(x) == RoundHalfEven(x, 10)

\* A faulty test, which leaves out the threshold itself.
AboveThreshold(score) == score > 600

\* score >= 6
Recommended(score) == score >= 600

\* The weather step: what it adds to the score and the reason it gives.
WeatherStep(g, weather) ==
  IF weather.forecast = "sunny" /\ InList("outdoor activities", g.preferences)
  THEN [score |-> 200, reasons |-> <<"Great weather for outdoor activities">>]
  ELSE IF weather.forecast = "rainy"
  THEN [score |-> -100,
        reasons |-> <<"Rainy weather might limit outdoor activities">>]
  ELSE [score |-> 0, reasons |-> <<>>]

\* The budget step: daily_cost * duration <= budget * 0.6
BudgetStep(g, prices) ==
  IF 10 * prices.avg_hotel_price * g.duration <= 6 * g.budget
  THEN [score |-> 100, reasons |-> <<"Within budget range">>]
  ELSE [score |-> -200, reasons |-> <<"Might be expensive for the budget">>]

MuseumStep(g, city) ==
  IF InList("museums", g.preferences) /\ LowerIn(city, {"paris", "berlin"})
  THEN [score |-> 150, reasons |-> <<"Excellent museums">>]
  ELSE [score |-> 0, reasons |-> <<>>]

NightlifeStep(g, city) ==
  IF InList("nightlife", g.preferences) /\ LowerIn(city, {"berlin", "amsterdam"})
  THEN [score |-> 100, reasons |-> <<"Great nightlife scene">>]
  ELSE [score |-> 0, reasons |-> <<>>]

\* SimpleTravelAgent.analyze_destination
AnalyzeDestination(g, city, weather, prices) ==
  LET w == WeatherStep(g, weather)
      b == BudgetStep(g, prices)
      m == MuseumStep(g, city)
      n == NightlifeStep(g, city)
      score == BaseScore + w.score + b.score + m.score + n.score
  IN  [overall_score |-> Round1(Clamped(score)),
       reasons |-> w.reasons \o b.reasons \o m.reasons \o n.reasons,
       recommended |-> Recommended(score)]

\* The last call of analyze_destination, by the caller or by
\* research_destination: its arguments and what it returned.
Analysis(caller, city, weather, prices, result) ==
  [caller |-> caller, city |-> city, weather |-> weather, prices |-> prices,
   result |-> result]

\* self.memory.research_cache[city] = data; researched_at is not read again.
StoreResearch(cache, city, data) ==
  [c \in DOMAIN cache \cup {city} |-> IF c = city THEN data ELSE cache[c]]

Researched(cache, destinations) ==
  \A i \in 1..Len(destinations) : destinations[i] \in DOMAIN cache

\* One entry of recommendations.
Recommendation(city, research) ==
  [city |-> city, score |-> research.analysis.overall_score,
   recommended |-> research.analysis.recommended,
   reasons |-> research.analysis.reasons,
   estimated_daily_cost |-> research.prices.avg_hotel_price]

\* recommendations: a dictionary, one entry for each researched destination,
\* at the place of the first mention of the city.
RECURSIVE Recommendations(_, _, _)
Recommendations(cache, destinations, seen) ==
  IF destinations = <<>> THEN <<>>
  ELSE LET city == Head(destinations)
       IN  IF city \in DOMAIN cache /\ city \notin seen
           THEN <<Recommendation(city, cache[city])>>
                  \o Recommendations(cache, Tail(destinations), seen \cup {city})
           ELSE Recommendations(cache, Tail(destinations), seen)

\* sorted(..., key=score, reverse=True): stable, the larger score first.
RECURSIVE InsertByScore(_, _)
InsertByScore(sorted, x) ==
  IF sorted = <<>> THEN <<x>>
  ELSE IF Head(sorted).score < x.score THEN <<x>> \o sorted
  ELSE <<Head(sorted)>> \o InsertByScore(Tail(sorted), x)

RECURSIVE SortedByScore(_)
SortedByScore(recs) ==
  IF recs = <<>> THEN <<>>
  ELSE InsertByScore(SortedByScore(SubSeq(recs, 1, Len(recs) - 1)), recs[Len(recs)])

(***************************************************************************)
(* SimpleTravelAgent: the operations.                                      *)
(***************************************************************************)
AnalyzeDestinationCall(city, weather, prices) ==
  /\ analysis' = Analysis("caller", city, weather, prices,
                          AnalyzeDestination(trip_goals, city, weather, prices))
  /\ UNCHANGED <<trip_goals, research_cache, state, current_recommendations>>
  /\ UNCHANGED besidesTravel

ResearchDestination(city, weather, prices) ==
  /\ analysis' = Analysis("research_destination", city, weather, prices,
                          AnalyzeDestination(trip_goals, city, weather, prices))
  /\ research_cache' =
       StoreResearch(research_cache, city,
                     [weather |-> weather, prices |-> prices,
                      analysis |-> AnalyzeDestination(trip_goals, city, weather,
                                                      prices)])
  /\ UNCHANGED <<trip_goals, state, current_recommendations>>
  /\ UNCHANGED besidesTravel

ObserveEnvironment ==
  /\ state' = IF Researched(research_cache, trip_goals.destinations)
              THEN "ready_to_plan" ELSE "research_needed"
  /\ UNCHANGED <<trip_goals, research_cache, current_recommendations, analysis>>
  /\ UNCHANGED besidesTravel

AnalyzeAndRecommend ==
  /\ current_recommendations' =
       SortedByScore(Recommendations(research_cache, trip_goals.destinations, {}))
  /\ state' = "recommendations_ready"
  /\ UNCHANGED <<trip_goals, research_cache, analysis>>
  /\ UNCHANGED besidesTravel

UpdateState ==
  /\ state' = IF state = "research_needed"
                   /\ Researched(research_cache, trip_goals.destinations)
              THEN "research_complete" ELSE state
  /\ UNCHANGED <<trip_goals, research_cache, current_recommendations, analysis>>
  /\ UNCHANGED besidesTravel

(***************************************************************************)
(* The specification of SimpleTravelAgent: two trips, every forecast that  *)
(* the analysis tells apart, a low and a high hotel price, and a city      *)
(* spelled in capitals.  As in                                             *)
(* autonomous_planning_cycle, the recommendations are made when the agent  *)
(* is ready to plan, and research goes on until they are made.             *)
(***************************************************************************)
Trips ==
  { TripGoals(<<"Paris", "Berlin">>, 1000, 6,
              <<"outdoor activities", "museums", "nightlife">>, <<>>),
    TripGoals(<<"PARIS">>, 1000, 6, <<"local food">>, <<>>) }
Forecasts == {"sunny", "rainy", "cloudy"}
PriceOffsets == {-20, 40}

Destinations == {trip_goals.destinations[i] : i \in 1..Len(trip_goals.destinations)}

NextTravel ==
  \/ \E city \in Destinations, f \in Forecasts, o \in PriceOffsets :
       AnalyzeDestinationCall(city, GetForecast(city, f, 20, 10),
                              GetHotelPrices(city, o))
  \/ \E city \in Destinations, f \in Forecasts, o \in PriceOffsets :
       /\ state # "recommendations_ready"
       /\ ResearchDestination(city, GetForecast(city, f, 20, 10),
                              GetHotelPrices(city, o))
  \/ ObserveEnvironment
  \/ state = "ready_to_plan" /\ AnalyzeAndRecommend
  \/ UpdateState

InitTravel ==
  /\ goals = <<>> /\ memory = <<>> /\ tools = <<>>
  /\ ret = NothingReturned("init")
  /\ variant = "none" /\ total_budget = 0 /\ allocated = <<>> /\ spent = <<>>
  /\ expenses = <<>> /\ alerts = <<>> /\ analyses = 0 /\ out = <<>>
  /\ trip_goals \in Trips
  /\ research_cache = <<>>
  /\ state = "initialized"
  /\ current_recommendations = <<>>
  /\ analysis = <<>>
  /\ research_variant = "none" /\ research_goals = <<>> /\ research_data = <<>> /\ research_out = <<>>
  /\ env_key = <<>> /\ env_base = <<>> /\ llm = <<>> /\ agent_executor = <<>> /\ current_goal = <<>> /\ last_action = <<>> /\ confidence = 0 /\ plan_out = <<>>
  /\ pc = "none" /\ steps_completed = 0 /\ next_actions = <<>> /\ research_log = <<>> /\ final_plan = <<>>
  /\ budget_result = <<>>

SpecTravel == InitTravel /\ [][NextTravel]_vars

(***************************************************************************)
(* Properties of SimpleTravelAgent.                                        *)
(***************************************************************************)
Prefers(preference) ==
  \E i \in 1..Len(trip_goals.preferences) : trip_goals.preferences[i] = preference

\* The fixed terms of the score of the last analysis, in hundredths.
WeatherTerm ==
  IF analysis.weather.forecast = "sunny" /\ Prefers("outdoor activities") THEN 200
  ELSE IF analysis.weather.forecast = "rainy" THEN -100
  ELSE 0

BudgetTerm ==
  IF 100 * analysis.prices.avg_hotel_price * trip_goals.duration
       <= 60 * trip_goals.budget
  THEN 100 ELSE -200

MuseumTerm ==
  IF Prefers("museums") /\ analysis.city \in {"Paris", "PARIS", "Berlin"}
  THEN 150 ELSE 0

NightlifeTerm ==
  IF Prefers("nightlife") /\ analysis.city \in {"Berlin", "Amsterdam"}
  THEN 100 ELSE 0

TermsTotal == 500 + WeatherTerm + BudgetTerm + MuseumTerm + NightlifeTerm

\* C14: overall_score is the base 5.0 plus the fixed terms that apply, kept
\* within [1, 10], and so lies in [1, 10] for every input.
C14_ScoreIsClampedSumOfTerms ==
  analysis # <<>> =>
    /\ 10 * analysis.result.overall_score
         = (IF TermsTotal < 100 THEN 100
            ELSE IF TermsTotal > 1000 THEN 1000 ELSE TermsTotal)
    /\ analysis.result.overall_score >= 10
    /\ analysis.result.overall_score <= 100

\* Every bonus applies, and the sum of 10.5 is cut to 10.
C14_Witness ==
  /\ analysis # <<>>
  /\ TermsTotal > 1000
  /\ Len(analysis.result.reasons) = 4
  /\ analysis.result.overall_score = 100

\* C15, corrected: a destination is recommended exactly when its score is at
\* least 6; a destination scoring exactly 6 is recommended.
C15_RecommendedFromSix ==
  analysis # <<>> =>
    (analysis.result.recommended <=> analysis.result.overall_score >= 60)

C15_Witness ==
  /\ analysis # <<>>
  /\ analysis.result.overall_score = 60
  /\ analysis.result.recommended

\* C15 as stated: a destination is recommended exactly when its score is
\* strictly greater than 6.
C15_RecommendedAboveSix ==
  analysis # <<>> =>
    (analysis.result.recommended <=> analysis.result.overall_score > 60)

MaxResearchGoals == 2

Weather(temp, description, rain) ==
  <<Item("temp", temp), Item("description", description), Item("rain", rain)>>

RomeData ==
  <<Item("attractions", <<"Colosseum", "Vatican City", "Trevi Fountain",
                          "Roman Forum", "Pantheon">>),
    Item("weather",
         <<Item("June", Weather("20-28C", "Warm and pleasant", "Low")),
           Item("July", Weather("23-31C", "Hot and sunny", "Very low")),
           Item("August", Weather("23-31C", "Very hot", "Low")),
           Item("September", Weather("19-26C", "Mild and comfortable", "Moderate"))>>),
    Item("local_tips", <<"Book attractions in advance to skip lines",
                         "Dress modestly for Vatican visits",
                         "Try authentic Roman pizza al taglio",
                         "Walk early morning or evening when it's cooler">>),
    Item("budget_ranges", <<Item("budget", 60), Item("mid-range", 120),
                            Item("luxury", 250)>>)>>

ParisData ==
  <<Item("attractions", <<"Eiffel Tower", "Louvre Museum", "Notre-Dame",
                          "Arc de Triomphe", "Montmartre">>),
    Item("weather",
         <<Item("June", Weather("15-22C", "Mild and pleasant", "Moderate")),
           Item("July", Weather("17-25C", "Warm", "Low")),
           Item("August", Weather("17-25C", "Warm", "Low")),
           Item("September", Weather("14-21C", "Cool and comfortable", "Moderate"))>>),
    Item("local_tips", <<"Learn basic French phrases",
                         "Visit museums on first Sunday mornings for free entry",
                         "Try croissants from local boulangeries",
                         "Use the metro for efficient city travel">>),
    Item("budget_ranges", <<Item("budget", 70), Item("mid-range", 140),
                            Item("luxury", 300)>>)>>

BarcelonaData ==
  <<Item("attractions", <<"Sagrada Familia", "Park Guell", "Las Ramblas",
                          "Gothic Quarter", "Casa Batllo">>),
    Item("weather",
         <<Item("June", Weather("20-26C", "Perfect weather", "Low")),
           Item("July", Weather("23-29C", "Warm and sunny", "Very low")),
           Item("August", Weather("24-29C", "Hot", "Low")),
           Item("September", Weather("21-26C", "Excellent weather", "Low"))>>),
    Item("local_tips", <<"Book Sagrada Familia tickets well in advance",
                         "Enjoy tapas culture - eat small plates",
                         "Siesta time is real - many shops close 2-5 PM",
                         "Beach is easily accessible by metro">>),
    Item("budget_ranges", <<Item("budget", 50), Item("mid-range", 100),
                            Item("luxury", 200)>>)>>

\* _initialize_knowledge_base
KnowledgeBase(v) ==
  IF v = "researcher"
  THEN <<Item("Rome", RomeData), Item("Paris", ParisData),
         Item("Barcelona", BarcelonaData)>>
  ELSE <<Item("Rome", RomeData), Item("Paris", ParisData)>>

\* `key in d` for a dictionary.
HasKey(d, key) == \E i \in 1..Len(d) : d[i].key = key

\* d[key]: the value, or nothing where Python raises KeyError.
Index(d, key) == IF HasKey(d, key) THEN Some(Get(d, key, None)) ELSE None

\* self.knowledge_base.get(destination, {})
DestData(v, destination) == Get(KnowledgeBase(v), destination, <<>>)

\* ', '.join(advice)
RECURSIVE Join(_)
Join(pieces) ==
  IF pieces = <<>> THEN <<>>
  ELSE IF Len(pieces) = 1 THEN Chars(Head(pieces))
  ELSE Chars(Head(pieces)) \o Chars(", ") \o Join(Tail(pieces))

(***************************************************************************)
(* research_weather and _generate_packing_advice                           *)
(***************************************************************************)
TemperatureAdvice(weather) ==
  LET temp_range == Chars(Get(weather, "temp", ""))
      description == Lower(Chars(Get(weather, "description", "")))
  IN  IF Contains(temp_range, Chars("30")) \/ Contains(description, Chars("hot"))
      THEN <<"Light, breathable clothing", "Sun hat and sunscreen",
             "Comfortable walking shoes">>
      ELSE IF Contains(temp_range, Chars("15")) /\ ~Contains(temp_range, Chars("25"))
      THEN <<"Layered clothing", "Light jacket or cardigan",
             "Comfortable walking shoes">>
      ELSE <<"Comfortable layers", "Light jacket", "Good walking shoes">>

RainAdvice(weather) ==
  LET rain == Lower(Chars(Get(weather, "rain", "")))
  IN  IF rain = Chars("moderate") \/ rain = Chars("high")
      THEN <<"Compact umbrella or rain jacket">>
      ELSE <<>>

GeneratePackingAdvice(weather) ==
  Join(TemperatureAdvice(weather) \o RainAdvice(weather))

\* A faulty fallback, which reads the record of a month that is not there.
FallbackFromTable(weather_data, travel_month) ==
  [raised |-> Index(weather_data, travel_month) = None,
   temperature |-> "", description |-> "", rain_probability |-> "",
   packing_advice |-> <<>>]

\* The record returned for an unknown destination or month.
FallbackWeather(weather_data, travel_month) ==
  [raised |-> FALSE,
   temperature |-> "15-25C", description |-> "Typical European weather",
   rain_probability |-> "Moderate",
   packing_advice |-> Chars("Pack layers and bring a light rain jacket")]

ResearchWeather(v, destination, travel_month) ==
  LET weather_data == Get(DestData(v, destination), "weather", <<>>)
  IN  IF HasKey(weather_data, travel_month)
      THEN LET weather == Get(weather_data, travel_month, <<>>)
           IN  [raised |-> FALSE,
                temperature |-> Get(weather, "temp", ""),
                description |-> Get(weather, "description", ""),
                rain_probability |-> Get(weather, "rain", ""),
                packing_advice |-> GeneratePackingAdvice(weather)]
      ELSE FallbackWeather(weather_data, travel_month)

(***************************************************************************)
(* research_attractions                                                    *)
(***************************************************************************)
\* interest_keywords
InterestKeywords(v) ==
  IF v = "researcher"
  THEN <<Item("history", <<"colosseum", "forum", "pantheon", "notre-dame", "gothic">>),
         Item("art", <<"louvre", "vatican", "museum", "gallery">>),
         Item("architecture", <<"sagrada", "eiffel", "pantheon", "arc", "casa">>),
         Item("culture", <<"montmartre", "las ramblas", "vatican", "gothic quarter">>),
         Item("food", <<"market", "quarter", "ramblas">>),
         Item("nature", <<"park", "garden", "guell">>)>>
  ELSE <<Item("history", <<"colosseum", "forum", "pantheon", "notre-dame">>),
         Item("art", <<"louvre", "vatican", "museum", "gallery">>),
         Item("architecture", <<"eiffel", "pantheon", "arc">>),
         Item("culture", <<"montmartre", "vatican">>),
         Item("food", <<"market", "quarter">>),
         Item("nature", <<"park", "garden">>)>>

\* The entry of interest_keywords whose key is the text interest_lower; the
\* keys are compared as texts.
RECURSIVE KeywordsOf(_, _)
KeywordsOf(table, interest_lower) ==
  IF table = <<>> THEN <<>>
  ELSE IF Chars(Head(table).key) = interest_lower THEN Head(table).value
  ELSE KeywordsOf(Tail(table), interest_lower)

\* The keywords of a list that occur in the lowered name.
RECURSIVE KeywordHits(_, _)
KeywordHits(keywords, attraction_lower) ==
  IF keywords = <<>> THEN 0
  ELSE (IF Contains(attraction_lower, Chars(Head(keywords))) THEN 1 ELSE 0)
       + KeywordHits(Tail(keywords), attraction_lower)

\* The times `score += 0.3` runs: once for each interest of the list, taken
\* as often as it is listed, and each of its keywords found in the name.
RECURSIVE InterestHits(_, _, _)
InterestHits(v, attraction_lower, interests) ==
  IF interests = <<>> THEN 0
  ELSE KeywordHits(KeywordsOf(InterestKeywords(v), Lower(Chars(Head(interests)))),
                   attraction_lower)
       + InterestHits(v, attraction_lower, Tail(interests))

\* The score before the cap, in tenths.
BaseAttractionScore == 3
HitScore == 3
ScoreCap == 10

\* A faulty cap, which lets the sum through.
Uncapped(score) == score

\* min(score, 1.0)
Capped(score) == IF score < ScoreCap THEN score ELSE ScoreCap

ScoreAttractionForInterests(v, attraction, interests) ==
  Capped(BaseAttractionScore
           + HitScore * InterestHits(v, Lower(Chars(attraction)), interests))

\* any(word in attraction_lower for word in words)
AnyWord(attraction_lower, words) ==
  \E i \in 1..Len(words) : Contains(attraction_lower, Chars(words[i]))

GetInterestMatch(v, attraction) ==
  LET attraction_lower == Lower(Chars(attraction))
  IN  IF AnyWord(attraction_lower, <<"museum", "art", "louvre", "vatican">>)
      THEN "art & culture"
      ELSE IF v = "researcher"
      THEN IF AnyWord(attraction_lower, <<"colosseum", "forum", "pantheon", "notre-dame">>)
           THEN "history"
           ELSE IF AnyWord(attraction_lower, <<"eiffel", "sagrada", "arc", "casa">>)
           THEN "architecture"
           ELSE IF AnyWord(attraction_lower, <<"park", "garden", "guell">>)
           THEN "nature"
           ELSE "general interest"
      ELSE IF AnyWord(attraction_lower, <<"colosseum", "forum", "pantheon">>)
           THEN "history"
           ELSE IF AnyWord(attraction_lower, <<"eiffel", "arc">>)
           THEN "architecture"
           ELSE "general interest"

\* score > 0.5
MarkedRecommended(score) == score > 5

\* The dictionary appended to attraction_scores.
AttractionEntry(v, attraction, interests, score) ==
  [name |-> attraction, score |-> score,
   recommended |-> MarkedRecommended(score),
   interest_match |-> GetInterestMatch(v, attraction)]

AttractionScore(v, attraction, interests) ==
  AttractionEntry(v, attraction, interests,
                  ScoreAttractionForInterests(v, attraction, interests))

\* dest_data.get('attractions', [...])
AllAttractions(v, destination) ==
  Get(DestData(v, destination), "attractions",
      <<"Local museums", "City center", "Parks">>)

\* attraction_scores.sort(key=score, reverse=True)[:5]
ResearchAttractions(v, destination, interests) ==
  LET all_attractions == AllAttractions(v, destination)
      attraction_scores ==
        [i \in 1..Len(all_attractions) |->
           AttractionScore(v, all_attractions[i], interests)]
  IN  Slice(SortedByScore(attraction_scores), 5)

(***************************************************************************)
(* get_budget_insights (trip_research_agent.py only).  Amounts of the      *)
(* breakdown are counted in tenths of a dollar.                            *)
(***************************************************************************)
\* The default of dest_data.get('budget_ranges', ...)
DefaultBudgetRanges ==
  <<Item("budget", 50), Item("mid-range", 100), Item("luxury", 200)>>

\* The default of dest_data.get('local_tips', ...)
DefaultLocalTips == <<"Research local customs", "Book accommodations in advance">>

\* [tip for tip in local_tips if any(word in tip.lower() for word in [...])]
MoneySavingTips(local_tips) ==
  SelectSeq(local_tips,
            LAMBDA tip : AnyWord(Lower(Chars(tip)),
                                 <<"free", "save", "advance", "local">>))

\* _get_splurge_recommendations
GetSplurgeRecommendations(destination) ==
  CASE destination = "Rome" ->
         <<"Private Vatican tour after hours", "Michelin-starred dining experience",
           "Private gladiator experience">>
    [] destination = "Paris" ->
         <<"Private Louvre tour", "Seine river dinner cruise",
           "Champagne tasting in Champagne region">>
    [] destination = "Barcelona" ->
         <<"Private Gaudi architecture tour", "Flamenco dinner show",
           "Day trip to Montserrat monastery">>
    [] OTHER -> <<"Premium local experiences", "Fine dining", "Private guided tours">>

\* The dictionary get_budget_insights returns.  budget_ranges['mid-range'] is
\* evaluated before .get is called, whatever budget_type is.
GetBudgetInsights(v, destination, budget_type) ==
  LET dest_data == DestData(v, destination)
      budget_ranges == Get(dest_data, "budget_ranges", DefaultBudgetRanges)
      local_tips == Get(dest_data, "local_tips", DefaultLocalTips)
      middle == Index(budget_ranges, "mid-range")
  IN  IF middle = None
      THEN [raised |-> TRUE, daily_budget |-> 0,
            budget_breakdown |-> <<>>, money_saving_tips |-> <<>>,
            splurge_recommendations |-> <<>>]
      ELSE LET daily_budget == Get(budget_ranges, budget_type, middle[1])
           IN  [raised |-> FALSE, daily_budget |-> daily_budget,
                budget_breakdown |->
                  <<Item("accommodation", daily_budget * 4),
                    Item("food", daily_budget * 3),
                    Item("activities", daily_budget * 2),
                    Item("transport", daily_budget * 1)>>,
                money_saving_tips |-> MoneySavingTips(local_tips),
                splurge_recommendations |->
                  IF budget_type = "luxury"
                  THEN GetSplurgeRecommendations(destination) ELSE <<>>]

(***************************************************************************)
(* set_research_goal and compile_research_report.  The times of creation   *)
(* and completion are only stored; they are left out.                      *)
(***************************************************************************)
Months ==
  <<"January", "February", "March", "April", "May", "June", "July", "August",
    "September", "October", "November", "December">>

\* _extract_month_from_dates
RECURSIVE MonthIn(_, _)
MonthIn(months, date_string) ==
  IF months = <<>> THEN "June"
  ELSE IF Contains(date_string, Chars(Head(months)))
          \/ Contains(date_string, SubSeq(Chars(Head(months)), 1, 3))
       THEN Head(months)
       ELSE MonthIn(Tail(months), date_string)

ExtractMonthFromDates(date_string) == MonthIn(Months, Chars(date_string))

\* The dictionary set_research_goal appends.
ResearchGoal(gs, destination, travel_dates, interests, budget_type) ==
  [id |-> Len(gs) + 1, type |-> "research_destination",
   destination |-> destination, dates |-> travel_dates, interests |-> interests,
   budget_type |-> budget_type, completed |-> FALSE]

\* A faulty search, which takes the goal added last.
LatestActiveGoal(gs, destination) ==
  LET active == {i \in 1..Len(gs) :
                   gs[i].destination = destination /\ ~gs[i].completed}
  IN  IF active = {} THEN 0 ELSE CHOOSE i \in active : \A j \in active : i >= j

\* next((g for g in self.goals if ... and not g['completed']), None): the
\* position of the goal, 0 for None.
ActiveGoal(gs, destination) ==
  LET active == {i \in 1..Len(gs) :
                   gs[i].destination = destination /\ ~gs[i].completed}
  IN  IF active = {} THEN 0 ELSE CHOOSE i \in active : \A j \in active : i <= j

\* d[key] = value
RECURSIVE Put(_, _, _)
Put(d, key, value) ==
  IF d = <<>> THEN <<Item(key, value)>>
  ELSE IF Head(d).key = key THEN <<Item(key, value)>> \o Tail(d)
  ELSE <<Head(d)>> \o Put(Tail(d), key, value)

\* The amount f"{x:.0f}" shows of tenths of a dollar.
ShownDollars(tenths) == RoundHalfEven(tenths, 10)

\* What the report shows, part by part; title() of the budget type and the
\* date of the report are left out.  04-specialized-agents.py shows no budget.
Report(v, destination, goal, weather, attractions, budget) ==
  [destination |-> destination, dates |-> goal.dates,
   interests |-> goal.interests,
   temperature |-> weather.temperature, description |-> weather.description,
   rain_probability |-> IF v = "researcher" THEN Some(weather.rain_probability)
                        ELSE None,
   packing_advice |-> weather.packing_advice,
   attractions |-> [i \in 1..Len(attractions) |->
                      [name |-> attractions[i].name,
                       recommended |-> attractions[i].recommended,
                       interest_match |-> attractions[i].interest_match]],
   budget |-> IF v = "researcher"
              THEN Some([budget_type |-> goal.budget_type,
                         daily_budget |-> budget.daily_budget,
                         breakdown |->
                           [i \in 1..Len(budget.budget_breakdown) |->
                              Item(budget.budget_breakdown[i].key,
                                   ShownDollars(budget.budget_breakdown[i].value))],
                         money_saving_tips |-> budget.money_saving_tips,
                         splurge_recommendations |-> budget.splurge_recommendations])
              ELSE None,
   local_tips |-> Get(DestData(v, destination), "local_tips", <<>>)]

\* What a call of the agent returned: raised tells an exception from a
\* result.
ResearchReturn(op, destination, argument, kind, result) ==
  [op |-> op, destination |-> destination, argument |-> argument,
   kind |-> kind, result |-> result]

\* The state compile_research_report leaves and what it returns.
CompileResearchReportResult(v, gs, data, destination) ==
  LET at == ActiveGoal(gs, destination)
  IN  IF at = 0
      THEN [goals |-> gs, data |-> data,
            out |-> ResearchReturn("compile_research_report", destination,
                                   <<>>, "no_active_goal", <<>>)]
      ELSE LET goal == gs[at]
               travel_month == ExtractMonthFromDates(goal.dates)
               weather_info == ResearchWeather(v, destination, travel_month)
               attractions == ResearchAttractions(v, destination, goal.interests)
               budget_info ==
                 IF v = "researcher"
                 THEN GetBudgetInsights(v, destination, goal.budget_type)
                 ELSE [raised |-> FALSE]
           IN  IF weather_info.raised \/ budget_info.raised
               THEN [goals |-> gs, data |-> data,
                     out |-> ResearchReturn("compile_research_report",
                                            destination, <<>>, "raised", <<>>)]
               ELSE [goals |-> [gs EXCEPT ![at].completed = TRUE],
                     data |-> IF v = "researcher"
                              THEN Put(data, destination,
                                       [weather |-> weather_info,
                                        attractions |-> attractions,
                                        budget |-> budget_info, goal |-> goal.id])
                              ELSE data,
                     out |-> ResearchReturn("compile_research_report",
                                            destination, <<>>, "report",
                                            Report(v, destination, goal,
                                                   weather_info, attractions,
                                                   budget_info))]

(***************************************************************************)
(* TripResearchAgent: the operations.                                      *)
(***************************************************************************)
SetResearchGoal(destination, travel_dates, interests, budget_type) ==
  /\ \A goal \in {ResearchGoal(research_goals, destination, travel_dates,
                                 interests, budget_type)} :
       /\ research_goals' = Append(research_goals, goal)
       /\ research_out' =
            ResearchReturn("set_research_goal", destination, <<>>, "goal", goal)
  /\ UNCHANGED <<research_variant, research_data>>
  /\ UNCHANGED besidesResearch

ResearchWeatherCall(destination, travel_month) ==
  /\ \A weather \in {ResearchWeather(research_variant, destination, travel_month)} :
       research_out' =
         ResearchReturn("research_weather", destination, travel_month,
                        IF weather.raised THEN "raised" ELSE "weather", weather)
  /\ UNCHANGED <<research_variant, research_goals, research_data>>
  /\ UNCHANGED besidesResearch

ResearchAttractionsCall(destination, interests) ==
  /\ research_out' =
       ResearchReturn("research_attractions", destination, interests,
                      "attractions",
                      ResearchAttractions(research_variant, destination, interests))
  /\ UNCHANGED <<research_variant, research_goals, research_data>>
  /\ UNCHANGED besidesResearch

GetBudgetInsightsCall(destination, budget_type) ==
  /\ research_variant = "researcher"
  /\ \A insights \in {GetBudgetInsights(research_variant, destination, budget_type)} :
       research_out' =
         ResearchReturn("get_budget_insights", destination, budget_type,
                        IF insights.raised THEN "raised" ELSE "insights", insights)
  /\ UNCHANGED <<research_variant, research_goals, research_data>>
  /\ UNCHANGED besidesResearch

CompileResearchReport(destination) ==
  /\ \A done \in {CompileResearchReportResult(research_variant, research_goals,
                                              research_data, destination)} :
       /\ research_goals' = done.goals
       /\ research_data' = done.data
       /\ research_out' = done.out
  /\ UNCHANGED research_variant
  /\ UNCHANGED besidesResearch

(***************************************************************************)
(* The specification of TripResearchAgent: either class; goals and lookups *)
(* for destinations of the knowledge base and for one that is in neither   *)
(* (Barcelona is in that of trip_research_agent.py only); interests that   *)
(* match no, one, two and three keywords of an attraction.                 *)
(***************************************************************************)
ResearchDestinations == {"Rome", "Paris", "Barcelona", "Lisbon"}
TravelMonths == {"June", "March"}
InterestLists ==
  { <<>>, <<"history", "culture", "food">>, <<"art", "art", "culture">>,
    <<"History", "architecture">>, <<"nature", "beaches">> }
BudgetTypes == {"mid-range", "luxury", "first-class"}
ResearchRequests ==
  { <<"Rome", "June 15-29, 2024", <<"history", "art", "food">>, "mid-range">>,
    <<"Barcelona", "Sep 3-9", <<"history", "culture", "food">>, "luxury">>,
    <<"Lisbon", "next spring", <<"art", "nature">>, "first-class">> }

NextResearch ==
  \/ \E r \in ResearchRequests :
       /\ Len(research_goals) < MaxResearchGoals
       /\ SetResearchGoal(r[1], r[2], r[3], r[4])
  \/ \E d \in ResearchDestinations, m \in TravelMonths : ResearchWeatherCall(d, m)
  \/ \E d \in ResearchDestinations, i \in InterestLists :
       ResearchAttractionsCall(d, i)
  \/ \E d \in ResearchDestinations, b \in BudgetTypes : GetBudgetInsightsCall(d, b)
  \/ \E d \in ResearchDestinations : CompileResearchReport(d)

InitResearch ==
  /\ goals = <<>> /\ memory = <<>> /\ tools = <<>>
  /\ ret = NothingReturned("init")
  /\ variant = "none" /\ total_budget = 0 /\ allocated = <<>> /\ spent = <<>>
  /\ expenses = <<>> /\ alerts = <<>> /\ analyses = 0 /\ out = <<>>
  /\ trip_goals = <<>> /\ research_cache = <<>> /\ state = "none" /\ current_recommendations = <<>> /\ analysis = <<>>
  /\ research_variant \in {"researcher", "specialized"}
  /\ research_goals = <<>> /\ research_data = <<>>
  /\ research_out = ResearchReturn("init", "", <<>>, "constructed", <<>>)
  /\ env_key = <<>> /\ env_base = <<>> /\ llm = <<>> /\ agent_executor = <<>> /\ current_goal = <<>> /\ last_action = <<>> /\ confidence = 0 /\ plan_out = <<>>
  /\ pc = "none" /\ steps_completed = 0 /\ next_actions = <<>> /\ research_log = <<>> /\ final_plan = <<>>
  /\ budget_result = <<>>

SpecResearch == InitResearch /\ [][NextResearch]_vars

(***************************************************************************)
(* Properties of TripResearchAgent.                                        *)
(***************************************************************************)
AttractionsReturned == research_out.op = "research_attractions"

\* The keywords the table of the class lists under a supplied interest.
SuppliedKeywords(interest) ==
  KeywordsOf(InterestKeywords(research_variant), Lower(Chars(interest)))

\* The pairs of a supplied interest, by its place in the list, and one of its
\* keywords, by its place in the table, whose keyword occurs in the name.
MatchingPairs(name, interests) ==
  UNION { { <<k, j>> : j \in { n \in 1..Len(SuppliedKeywords(interests[k])) :
                                 Contains(Lower(Chars(name)),
                                          Chars(SuppliedKeywords(interests[k])[n])) } }
          : k \in 1..Len(interests) }

\* C16: research_attractions scores each attraction min(1.0, 0.3 + 0.3 * the
\* number of (supplied interest, keyword) pairs whose keyword occurs in the
\* name), so each score is in [0.3, 1.0]; an attraction is recommended exactly
\* when its score is above 0.5, which is exactly when a keyword of a supplied
\* interest occurs in its name; the result has at most 5 attractions, in
\* non-increasing order of score.
C16_AttractionsScoredByKeywordPairs ==
  AttractionsReturned =>
    LET result == research_out.result
        interests == research_out.argument
    IN  /\ Len(result) <= 5
        /\ \A i \in 1..Len(result) :
             LET pairs == Cardinality(MatchingPairs(result[i].name, interests))
             IN  /\ result[i].score
                      = (IF 3 + 3 * pairs < 10 THEN 3 + 3 * pairs ELSE 10)
                 /\ result[i].score >= 3 /\ result[i].score <= 10
                 /\ result[i].recommended <=> result[i].score > 5
                 /\ result[i].recommended <=> pairs >= 1
        /\ \A i, j \in 1..Len(result) :
             i < j => result[i].score >= result[j].score

\* Three keywords of the supplied interests occur in one name, whose 1.2 is
\* cut to 1.0; another attraction has none and stays at 0.3, and the sort
\* moved an attraction ahead of one the knowledge base lists before it.
C16_Witness ==
  /\ AttractionsReturned
  /\ \E i \in 1..Len(research_out.result) :
       /\ Cardinality(MatchingPairs(research_out.result[i].name,
                                    research_out.argument)) = 3
       /\ research_out.result[i].score = 10
  /\ \E i \in 1..Len(research_out.result) :
       /\ research_out.result[i].score = 3
       /\ ~research_out.result[i].recommended
  /\ research_out.result[1].name
       # AllAttractions(research_variant, research_out.destination)[1]

\* The destinations of the knowledge base of the class.
KnownDestinations ==
  IF research_variant = "researcher" THEN {"Rome", "Paris", "Barcelona"}
  ELSE {"Rome", "Paris"}

UnknownDestination(destination) == destination \notin KnownDestinations

\* The default record of research_weather.
DefaultWeatherReturned(weather) ==
  /\ weather.temperature = "15-25C"
  /\ weather.description = "Typical European weather"
  /\ weather.rain_probability = "Moderate"
  /\ weather.packing_advice = Chars("Pack layers and bring a light rain jacket")

\* The default tier of a budget type.
DefaultTier(budget_type) ==
  CASE budget_type = "budget" -> 50
    [] budget_type = "luxury" -> 200
    [] OTHER -> 100

\* What the lookups return for an unknown destination.
UnknownDestinationDefaults ==
  /\ research_out.kind # "raised"
  /\ research_out.op = "research_weather"
       /\ UnknownDestination(research_out.destination)
       => DefaultWeatherReturned(research_out.result)
  /\ research_out.op = "get_budget_insights"
       /\ UnknownDestination(research_out.destination)
       => research_out.result.daily_budget = DefaultTier(research_out.argument)
  /\ research_out.op = "compile_research_report"
       /\ research_out.kind = "report"
       /\ UnknownDestination(research_out.destination)
       => /\ research_out.result.temperature = "15-25C"
          /\ research_out.result.description = "Typical European weather"
          /\ research_variant = "researcher" =>
               \E i \in 1..Len(research_goals) :
                 /\ research_goals[i].destination = research_out.destination
                 /\ research_goals[i].completed
                 /\ research_out.result.budget[1].daily_budget
                      = DefaultTier(research_goals[i].budget_type)

\* compile_research_report for an open goal on an unknown destination returns
\* the report and marks that goal completed.
UnknownDestinationReportCompletes ==
  \A d \in ResearchDestinations :
    UnknownDestination(d) /\ ActiveGoal(research_goals, d) # 0
      /\ CompileResearchReport(d)
    => /\ research_out'.kind = "report"
       /\ Len(research_goals') = Len(research_goals)
       /\ research_goals'[ActiveGoal(research_goals, d)].completed

\* C18: for a destination absent from the knowledge base, research_weather
\* returns the default record, get_budget_insights uses the default tiers 50,
\* 100 and 200 with an unknown budget type taking the middle one, no lookup
\* raises, and compile_research_report for a goal on such a destination
\* completes and marks the goal completed.
C18_UnknownDestinationFallsBack ==
  /\ [](UnknownDestinationDefaults)
  /\ [][UnknownDestinationReportCompletes]_vars

\* The report of a goal on Lisbon, which is in neither knowledge base, with a
\* budget type that is in no table: the default weather, the middle default
\* tier, and the goal completed.
C18_Witness ==
  /\ research_variant = "researcher"
  /\ research_out.op = "compile_research_report"
  /\ research_out.kind = "report"
  /\ research_out.destination = "Lisbon"
  /\ research_out.result.temperature = "15-25C"
  /\ research_out.result.rain_probability = Some("Moderate")
  /\ research_out.result.budget[1].budget_type = "first-class"
  /\ research_out.result.budget[1].daily_budget = 100
  /\ \E i \in 1..Len(research_goals) :
       research_goals[i].destination = "Lisbon" /\ research_goals[i].completed

(***************************************************************************)
(* compile_research_report and the goals.                                  *)
(***************************************************************************)
ReportCompiled == research_out'.op = "compile_research_report"

Waiting(i, destination) ==
  research_goals[i].destination = destination /\ ~research_goals[i].completed

\* The call has completed the goal at i and no other, and has returned the
\* report.
CompletesOnly(i) ==
  /\ research_out'.kind = "report"
  /\ Len(research_goals') = Len(research_goals)
  /\ research_goals'[i] = [research_goals[i] EXCEPT !.completed = TRUE]
  /\ \A j \in 1..Len(research_goals) : j # i => research_goals'[j] = research_goals[j]

CompilesTheFirstWaitingGoal ==
  ReportCompiled =>
    IF \E i \in 1..Len(research_goals) : Waiting(i, research_out'.destination)
    THEN \E i \in 1..Len(research_goals) :
           /\ Waiting(i, research_out'.destination)
           /\ \A j \in 1..(i - 1) : ~Waiting(j, research_out'.destination)
           /\ CompletesOnly(i)
    ELSE /\ research_out'.kind = "no_active_goal"
         /\ research_goals' = research_goals
         /\ research_data' = research_data

CompletedGoalsStay ==
  \A i \in 1..Len(research_goals) :
    research_goals[i].completed =>
      Len(research_goals') >= i /\ research_goals'[i] = research_goals[i]

\* C30: compile_research_report(d) takes the first-added incomplete goal for
\* d, marks that goal completed and changes no other; a completed goal is
\* never taken again and never becomes incomplete; with no incomplete goal
\* for d the call returns the "No active research goal" text and changes
\* neither the goals nor research_data.
C30_ReportCompletesFirstWaitingGoal ==
  [][CompilesTheFirstWaitingGoal /\ CompletedGoalsStay]_vars

\* Two goals for one destination, the first compiled and the second waiting.
C30_Witness ==
  /\ Len(research_goals) = 2
  /\ research_goals[1].destination = research_goals[2].destination
  /\ research_goals[1].completed /\ ~research_goals[2].completed
  /\ research_out.op = "compile_research_report"
  /\ research_out.kind = "report"
  /\ research_out.destination = research_goals[1].destination

(***************************************************************************)
(* ProductionTravelAgent (05-production-patterns.py).  env_key and         *)
(* env_base are what os.getenv gives for AZURE_OPENAI_KEY and              *)
(* AZURE_OPENAI_BASE: None when unset, else the text.  The language model  *)
(* and the executor are outside the program: their construction may fail   *)
(* and an invocation may return an output, return without one, or raise.   *)
(* confidence is counted in tenths.                                        *)
(***************************************************************************)
\* The truth value of a result of os.getenv.
Truthy(value) == value # None /\ value # Some("")

\* A faulty check, which is content with one of the keys.
CheckAnyKey(key, base) == Truthy(key) \/ Truthy(base)

\* _check_api_setup: all(os.getenv(key) for key in required_keys)
CheckApiSetup(key, base) == Truthy(key) /\ Truthy(base)

\* self.llm after _initialize_llm: the model, or None where AzureOpenAI(...)
\* raised.
InitializedLlm == {None, Some("AzureOpenAI")}

\* self.agent_executor after _setup_agent: None without a model and where
\* the construction raised.
SetUpExecutor(model) ==
  IF model = None THEN {None} ELSE {None, Some("AgentExecutor")}

\* TripGoal(destination=..., travel_dates=..., interests=..., budget=...);
\* the time of creation is left out.
TripGoal(destination, dates, interests, budget) ==
  [destination |-> destination, travel_dates |-> dates, interests |-> interests,
   budget |-> budget, priority |-> 1, completed |-> FALSE]

\* What a call of the agent returned.
Planned(op, request, kind, invoked, response) ==
  [op |-> op, request |-> request, kind |-> kind, invoked |-> invoked,
   response |-> response]

\* _demo_mode_response: the fixed text around the request.
DemoModeResponse(user_request) ==
  <<"DEMO MODE RESPONSE / Your request: ", user_request,
    " / In production mode with proper API keys, I would: ...">>

InitialConfidence == 5
ConfidenceStep == 2
FullConfidence == 10

\* min(self.state.confidence + 0.2, 1.0)
RaisedConfidence(c) ==
  IF c + ConfidenceStep < FullConfidence THEN c + ConfidenceStep
  ELSE FullConfidence

\* The state plan_trip leaves and what it returns, for an invocation that
\* gives "output" (a result with an output), "no_output" (a result without
\* one, so that result["output"] raises) or "raised".
PlanTripResult(executor, action, c, user_request, invocation) ==
  IF executor = None
  THEN [last_action |-> action, confidence |-> c,
        out |-> Planned("plan_trip", user_request, "demo", "none",
                        DemoModeResponse(user_request))]
  ELSE IF invocation = "raised"
  THEN [last_action |-> Some("planning_trip"), confidence |-> c,
        out |-> Planned("plan_trip", user_request, "error", invocation,
                        <<"Error during trip planning: ", "invocation failed">>)]
  ELSE IF invocation = "no_output"
  THEN [last_action |-> Some("planning_trip"), confidence |-> RaisedConfidence(c),
        out |-> Planned("plan_trip", user_request, "error", invocation,
                        <<"Error during trip planning: ", "'output'">>)]
  ELSE [last_action |-> Some("planning_trip"), confidence |-> RaisedConfidence(c),
        out |-> Planned("plan_trip", user_request, "output", invocation,
                        <<"plan for: ", user_request>>)]

(***************************************************************************)
(* ProductionTravelAgent: the operations.                                  *)
(***************************************************************************)
\* set_travel_goal: the goal is stored before the summary is formatted, and
\* f"${budget:.0f}" raises TypeError for a budget of None.
SetTravelGoal(destination, dates, interests, budget) ==
  /\ current_goal' = Some(TripGoal(destination, dates, interests, budget))
  /\ plan_out' = Planned("set_travel_goal", destination,
                         IF budget = None THEN "raised" ELSE "goal_summary",
                         "none", <<>>)
  /\ UNCHANGED <<env_key, env_base, llm, agent_executor, last_action, confidence>>
  /\ UNCHANGED besidesProduction

PlanTrip(user_request, invocation) ==
  /\ \A done \in {PlanTripResult(agent_executor, last_action, confidence,
                                 user_request, invocation)} :
       /\ last_action' = done.last_action
       /\ confidence' = done.confidence
       /\ plan_out' = done.out
  /\ UNCHANGED <<env_key, env_base, llm, agent_executor, current_goal>>
  /\ UNCHANGED besidesProduction

(***************************************************************************)
(* The specification of ProductionTravelAgent: constructed with each of    *)
(* the two variables unset, empty or set, and with each outcome of the     *)
(* construction of the model and of the executor.                          *)
(***************************************************************************)
EnvironmentValues == {None, Some(""), Some("configured")}
UserRequests == {"Plan a 7-day trip to Rome", "Weekend in Paris"}
Invocations == {"output", "no_output", "raised"}
TravelGoals ==
  { <<"Rome", "June 15-29, 2024", <<"history", "food">>, Some(2500)>>,
    <<"Paris", "next spring", <<"art">>, None>> }

NextProduction ==
  \/ \E g \in TravelGoals : SetTravelGoal(g[1], g[2], g[3], g[4])
  \/ \E r \in UserRequests, i \in Invocations : PlanTrip(r, i)

InitProduction ==
  /\ goals = <<>> /\ memory = <<>> /\ tools = <<>>
  /\ ret = NothingReturned("init")
  /\ variant = "none" /\ total_budget = 0 /\ allocated = <<>> /\ spent = <<>>
  /\ expenses = <<>> /\ alerts = <<>> /\ analyses = 0 /\ out = <<>>
  /\ trip_goals = <<>> /\ research_cache = <<>> /\ state = "none" /\ current_recommendations = <<>> /\ analysis = <<>>
  /\ research_variant = "none" /\ research_goals = <<>> /\ research_data = <<>> /\ research_out = <<>>
  /\ env_key \in EnvironmentValues
  /\ env_base \in EnvironmentValues
  /\ llm \in (IF CheckApiSetup(env_key, env_base) THEN InitializedLlm ELSE {None})
  /\ agent_executor \in SetUpExecutor(llm)
  /\ current_goal = None
  /\ last_action = None
  /\ confidence = InitialConfidence
  /\ plan_out = Planned("init", "", "constructed", "none", <<>>)
  /\ pc = "none" /\ steps_completed = 0 /\ next_actions = <<>> /\ research_log = <<>> /\ final_plan = <<>>
  /\ budget_result = <<>>

SpecProduction == InitProduction /\ [][NextProduction]_vars

(***************************************************************************)
(* Properties of ProductionTravelAgent.                                    *)
(***************************************************************************)
Unset(value) == value = None

DemoMode == agent_executor = None

\* A variable unset, or the model or the executor not constructed, leaves the
\* agent without an executor; without one nothing has been planned and the
\* confidence is the initial one.  The confidence is never outside [0, 1].
DemoModeKept ==
  /\ Unset(env_key) \/ Unset(env_base) \/ llm = None => DemoMode
  /\ DemoMode => last_action = None /\ confidence = 5
  /\ DemoMode /\ plan_out.op = "plan_trip" =>
       /\ plan_out.kind = "demo"
       /\ plan_out.response[2] = plan_out.request
       /\ plan_out.response = DemoModeResponse(plan_out.request)
  /\ confidence >= 0 /\ confidence <= 10

\* plan_trip without an executor changes nothing of the agent; with one, the
\* confidence rises only where the invocation returned.
PlanTripStep ==
  \A r \in UserRequests, i \in Invocations :
    PlanTrip(r, i) =>
      /\ DemoMode =>
           /\ plan_out'.kind = "demo" /\ plan_out'.response[2] = r
           /\ UNCHANGED <<env_key, env_base, llm, agent_executor, current_goal,
                          last_action, confidence>>
      /\ confidence' > confidence => ~DemoMode /\ i # "raised"
      /\ confidence' >= confidence

\* C19: with AZURE_OPENAI_KEY or AZURE_OPENAI_BASE unset, or the setup of
\* the model or of the agent failed, the agent has no executor and every
\* plan_trip returns the demo-mode response embedding the request, raising
\* nothing and changing nothing of the agent state (last_action unset,
\* confidence 0.5); with an executor the confidence stays within [0, 1] and
\* rises only on a successful invocation.
C19_DemoModeWithoutExecutor ==
  /\ [](DemoModeKept)
  /\ [][PlanTripStep]_vars
  /\ [][confidence' # confidence => plan_out'.op = "plan_trip"]_vars

\* Both variables are set but the executor could not be constructed: a goal
\* is set, and plan_trip answers in demo mode with the agent state as it was.
C19_Witness ==
  /\ Truthy(env_key) /\ Truthy(env_base) /\ llm # None
  /\ DemoMode
  /\ current_goal # None
  /\ plan_out.op = "plan_trip" /\ plan_out.kind = "demo"
  /\ plan_out.response[2] = "Weekend in Paris"
  /\ last_action = None /\ confidence = 5

(***************************************************************************)
(* budget_analyzer_tool.  Shares are in hundredths of the budget, amounts  *)
(* in cents; the budget is a whole number of dollars.                      *)
(***************************************************************************)
\* str.split(sep): the pieces between the separators, empty ones included.
RECURSIVE Split(_, _, _)
Split(t, sep, piece) ==
  IF t = <<>> THEN <<piece>>
  ELSE IF Head(t) = sep THEN <<piece>> \o Split(Tail(t), sep, <<>>)
  ELSE Split(Tail(t), sep, Append(piece, Head(t)))

\* str.strip(), of blanks.
RECURSIVE StripLeft(_)
StripLeft(t) ==
  IF t # <<>> /\ Head(t) = " " THEN StripLeft(Tail(t)) ELSE t

RECURSIVE StripRight(_)
StripRight(t) ==
  IF t # <<>> /\ t[Len(t)] = " " THEN StripRight(SubSeq(t, 1, Len(t) - 1)) ELSE t

Strip(t) == StripRight(StripLeft(t))

\* [p.strip().lower() for p in priorities.split(',') if p.strip()]
PriorityList(priorities) ==
  LET pieces == Split(Chars(priorities), ",", <<>>)
      kept == SelectSeq(pieces, LAMBDA p : Strip(p) # <<>>)
  IN  [i \in 1..Len(kept) |-> Lower(Strip(kept[i]))]

\* `word in priority_list`
Listed(priority_list, word) ==
  \E i \in 1..Len(priority_list) : priority_list[i] = Chars(word)

DefaultAllocations == [c \in Categories |-> DefaultPct(c)]

\* One `if` of the adjustments: a share raised, others lowered.
RECURSIVE Shifted(_, _, _, _)
Shifted(allocations, raised, by, lowered) ==
  IF lowered = <<>> THEN [allocations EXCEPT ![raised] = @ + by]
  ELSE Shifted([allocations EXCEPT ![Head(lowered)[1]] = @ - Head(lowered)[2]],
               raised, by, Tail(lowered))

AdjustedForPriorities(priority_list) ==
  LET food == IF Listed(priority_list, "food") \/ Listed(priority_list, "culinary")
              THEN Shifted(DefaultAllocations, "food", 10,
                           << <<"shopping", 5>>, <<"activities", 5>> >>)
              ELSE DefaultAllocations
      luxury == IF Listed(priority_list, "luxury")
                THEN Shifted(food, "accommodation", 15,
                             << <<"food", 5>>, <<"transport", 10>> >>)
                ELSE food
  IN  IF Listed(priority_list, "activities") \/ Listed(priority_list, "culture")
      THEN Shifted(luxury, "activities", 10,
                   << <<"shopping", 5>>, <<"accommodation", 5>> >>)
      ELSE luxury

\* The three recommendations by the daily budget, by the name of their tier.
RecommendationTier(budget, duration) ==
  IF budget < 50 * duration THEN "budget"
  ELSE IF budget > 200 * duration THEN "luxury"
  ELSE "balanced"

\* What budget_analyzer_tool returns: the figures of its text.  A duration
\* of 0 raises ZeroDivisionError at the daily budget.
BudgetAnalyzerTool(budget, duration, priorities) ==
  IF duration = 0
  THEN [raised |-> TRUE, total_budget |-> budget, duration |-> duration,
        priorities |-> priorities, daily_budget |-> 0, allocations |-> <<>>,
        budget_breakdown |-> <<>>, shown |-> <<>>, recommendations |-> "none"]
  ELSE [raised |-> FALSE, total_budget |-> budget, duration |-> duration,
        priorities |-> priorities,
        daily_budget |-> RoundHalfEven(100 * budget, duration),
        allocations |-> AdjustedForPriorities(PriorityList(priorities)),
        budget_breakdown |->
          [c \in Categories |->
             budget * AdjustedForPriorities(PriorityList(priorities))[c]],
        shown |->
          [c \in Categories |->
             RoundHalfEven(budget
                             * AdjustedForPriorities(PriorityList(priorities))[c],
                           100)],
        recommendations |-> RecommendationTier(budget, duration)]

BudgetAnalyzerToolCall(budget, duration, priorities) ==
  /\ budget_result' = BudgetAnalyzerTool(budget, duration, priorities)
  /\ UNCHANGED besidesAnalyzer

(***************************************************************************)
(* The specification of the tool: budgets below, between and above the     *)
(* daily limits of the recommendations, and priorities with every          *)
(* combination of the keywords, in capitals, with blanks, with empty       *)
(* pieces and with a word that only contains a keyword.                    *)
(***************************************************************************)
AnalyzerBudgets == {300, 1000, 2500, 4000}
AnalyzerDurations == {0, 7, 14}
AnalyzerPriorities ==
  { "", "food,culture", "Food, Luxury", "culture,food,luxury", "seafood", " , ",
    "food,activities", "luxury,culture", "shopping", "Culinary,LUXURY",
    "luxury", "activities" }

NextAnalyzer ==
  \E b \in AnalyzerBudgets, d \in AnalyzerDurations, p \in AnalyzerPriorities :
    BudgetAnalyzerToolCall(b, d, p)

InitAnalyzer ==
  /\ goals = <<>> /\ memory = <<>> /\ tools = <<>>
  /\ ret = NothingReturned("init")
  /\ variant = "none" /\ total_budget = 0 /\ allocated = <<>> /\ spent = <<>>
  /\ expenses = <<>> /\ alerts = <<>> /\ analyses = 0 /\ out = <<>>
  /\ trip_goals = <<>> /\ research_cache = <<>> /\ state = "none" /\ current_recommendations = <<>> /\ analysis = <<>>
  /\ research_variant = "none" /\ research_goals = <<>> /\ research_data = <<>> /\ research_out = <<>>
  /\ env_key = <<>> /\ env_base = <<>> /\ llm = <<>> /\ agent_executor = <<>> /\ current_goal = <<>> /\ last_action = <<>> /\ confidence = 0 /\ plan_out = <<>>
  /\ pc = "none" /\ steps_completed = 0 /\ next_actions = <<>> /\ research_log = <<>> /\ final_plan = <<>>
  /\ budget_result = <<>>

SpecAnalyzer == InitAnalyzer /\ [][NextAnalyzer]_vars

Analyzed == budget_result # <<>> /\ ~budget_result.raised

\* C29: for every combination of the priority keywords the five shares of
\* budget_analyzer_tool sum to 100% and each category's share and dollar
\* amount is non-negative.
C29_SharesSumToAllAndAreNonNegative ==
  Analyzed =>
    /\ Total(budget_result.allocations) = 100
    /\ \A c \in Categories :
         budget_result.allocations[c] >= 0 /\ budget_result.budget_breakdown[c] >= 0

(***************************************************************************)
(* SimpleTravelAgent.autonomous_planning_cycle, step by step.  pc is the   *)
(* place of the call: "test" at the head of the while loop, "observe",     *)
(* "plan", "execute" and "update" in its body, "present" before            *)
(* present_final_plan, "done" after it and "raised" where an exception     *)
(* left the call.  research_log lists the cities research_destination was  *)
(* executed for, in order.                                                 *)
(***************************************************************************)
besidesTravelCycle ==
  <<agentVars, budgetVars, researchVars, productionVars, analyzerVars>>

\* max_steps = 10
MaxSteps == 10

\* A faulty observation, which always asks for research.
AlwaysResearchNeeded(cache, destinations) == "research_needed"

\* observe_environment: the state it sets.
ObservedState(cache, destinations) ==
  IF SelectSeq(destinations, LAMBDA city : city \notin DOMAIN cache) # <<>>
  THEN "research_needed" ELSE "ready_to_plan"

PlannedAction(type, target) == [type |-> type, target |-> target]

\* plan_next_actions: the list is made before any of its actions runs.
PlanNextActions(st, destinations, cache) ==
  IF st = "research_needed"
  THEN [i \in 1..Len(SelectSeq(destinations, LAMBDA city : city \notin DOMAIN cache)) |->
          PlannedAction("research_destination",
                        SelectSeq(destinations,
                                  LAMBDA city : city \notin DOMAIN cache)[i])]
  ELSE IF st = "ready_to_plan"
  THEN <<PlannedAction("analyze_and_recommend", "all_destinations")>>
  ELSE <<>>

\* update_state: the state it leaves.
UpdatedState(st, cache, destinations) ==
  IF st = "research_needed" /\ Researched(cache, destinations)
  THEN "research_complete" ELSE st

\* goals_achieved
GoalsAchieved(st) == st = "recommendations_ready"

RECURSIVE AccommodationSum(_, _)
AccommodationSum(recs, duration) ==
  IF recs = <<>> THEN 0
  ELSE Head(recs).estimated_daily_cost * duration
       + AccommodationSum(Tail(recs), duration)

\* present_final_plan: what it prints, or the exception of the division by
\* len(self.current_recommendations).  The amounts are those f"{x:.0f}" shows.
PresentFinalPlan(recs, g) ==
  IF Len(recs) = 0
  THEN [raised |-> TRUE, lines |-> <<>>, accommodation |-> 0, remaining |-> 0]
  ELSE [raised |-> FALSE,
        lines |-> [i \in 1..Len(recs) |->
                     [city |-> recs[i].city, score |-> recs[i].score,
                      recommended |-> recs[i].recommended,
                      daily_cost |-> recs[i].estimated_daily_cost,
                      reasons |-> recs[i].reasons]],
        accommodation |->
          RoundHalfEven(AccommodationSum(recs, g.duration), Len(recs)),
        remaining |->
          RoundHalfEven(g.budget * Len(recs) - AccommodationSum(recs, g.duration),
                        Len(recs))]

(***************************************************************************)
(* The steps of the call.                                                  *)
(***************************************************************************)
StartCycle ==
  /\ pc = "not_started"
  /\ pc' = "test"
  /\ steps_completed' = 0
  /\ UNCHANGED <<next_actions, research_log, final_plan>>
  /\ UNCHANGED besidesCycle

\* while not self.goals_achieved() and steps_completed < max_steps
LoopTest ==
  /\ pc = "test"
  /\ pc' = IF ~GoalsAchieved(state) /\ steps_completed < MaxSteps
           THEN "observe" ELSE "present"
  /\ UNCHANGED <<steps_completed, next_actions, research_log, final_plan>>
  /\ UNCHANGED besidesCycle

CycleObserve ==
  /\ pc = "observe"
  /\ state' = ObservedState(research_cache, trip_goals.destinations)
  /\ pc' = "plan"
  /\ UNCHANGED <<trip_goals, research_cache, current_recommendations, analysis>>
  /\ UNCHANGED <<steps_completed, next_actions, research_log, final_plan>>
  /\ UNCHANGED besidesTravelCycle

CyclePlan ==
  /\ pc = "plan"
  /\ next_actions' = PlanNextActions(state, trip_goals.destinations, research_cache)
  /\ pc' = "execute"
  /\ UNCHANGED <<steps_completed, research_log, final_plan>>
  /\ UNCHANGED besidesCycle

\* for action in next_actions: self.execute_action(action), one action at a
\* step; the forecast and the price are what the mock APIs draw.
CycleResearch(forecast, offset) ==
  /\ pc = "execute"
  /\ next_actions # <<>>
  /\ Head(next_actions).type = "research_destination"
  /\ \A city \in {Head(next_actions).target} :
       \A found \in {AnalyzeDestination(trip_goals, city,
                                        GetForecast(city, forecast, 20, 10),
                                        GetHotelPrices(city, offset))} :
         /\ analysis' = Analysis("research_destination", city,
                                 GetForecast(city, forecast, 20, 10),
                                 GetHotelPrices(city, offset), found)
         /\ research_cache' =
              StoreResearch(research_cache, city,
                            [weather |-> GetForecast(city, forecast, 20, 10),
                             prices |-> GetHotelPrices(city, offset),
                             analysis |-> found])
         /\ research_log' = Append(research_log, city)
  /\ next_actions' = Tail(next_actions)
  /\ UNCHANGED <<trip_goals, state, current_recommendations>>
  /\ UNCHANGED <<pc, steps_completed, final_plan>>
  /\ UNCHANGED besidesTravelCycle

CycleAnalyze ==
  /\ pc = "execute"
  /\ next_actions # <<>>
  /\ Head(next_actions).type = "analyze_and_recommend"
  /\ current_recommendations' =
       SortedByScore(Recommendations(research_cache, trip_goals.destinations, {}))
  /\ state' = "recommendations_ready"
  /\ next_actions' = Tail(next_actions)
  /\ UNCHANGED <<trip_goals, research_cache, analysis>>
  /\ UNCHANGED <<pc, steps_completed, research_log, final_plan>>
  /\ UNCHANGED besidesTravelCycle

ExecuteDone ==
  /\ pc = "execute"
  /\ next_actions = <<>>
  /\ pc' = "update"
  /\ UNCHANGED <<steps_completed, next_actions, research_log, final_plan>>
  /\ UNCHANGED besidesCycle

\* self.update_state(); steps_completed += 1
CycleUpdate ==
  /\ pc = "update"
  /\ state' = UpdatedState(state, research_cache, trip_goals.destinations)
  /\ steps_completed' = steps_completed + 1
  /\ pc' = "test"
  /\ UNCHANGED <<trip_goals, research_cache, current_recommendations, analysis>>
  /\ UNCHANGED <<next_actions, research_log, final_plan>>
  /\ UNCHANGED besidesTravelCycle

CyclePresent ==
  /\ pc = "present"
  /\ final_plan' = PresentFinalPlan(current_recommendations, trip_goals)
  /\ pc' = IF PresentFinalPlan(current_recommendations, trip_goals).raised
           THEN "raised" ELSE "done"
  /\ UNCHANGED <<steps_completed, next_actions, research_log>>
  /\ UNCHANGED besidesCycle

(***************************************************************************)
(* The specification of one call on a new agent: the trips are an empty    *)
(* list, one city, two and three cities, and one city named twice.         *)
(***************************************************************************)
CycleTrips ==
  { TripGoals(d, 1000, 6, <<"outdoor activities", "museums", "nightlife">>, <<>>) :
      d \in { <<>>, <<"Paris">>, <<"Paris", "Berlin">>, <<"Paris", "Paris">>,
              <<"Paris", "Berlin", "Prague">>, <<"Berlin", "Paris", "Berlin">> } }

NextCycle ==
  \/ StartCycle
  \/ LoopTest
  \/ CycleObserve
  \/ CyclePlan
  \/ \E f \in Forecasts, o \in PriceOffsets : CycleResearch(f, o)
  \/ CycleAnalyze
  \/ ExecuteDone
  \/ CycleUpdate
  \/ CyclePresent

InitCycle ==
  /\ goals = <<>> /\ memory = <<>> /\ tools = <<>>
  /\ ret = NothingReturned("init")
  /\ variant = "none" /\ total_budget = 0 /\ allocated = <<>> /\ spent = <<>>
  /\ expenses = <<>> /\ alerts = <<>> /\ analyses = 0 /\ out = <<>>
  /\ trip_goals \in CycleTrips
  /\ research_cache = <<>>
  /\ state = "initialized"
  /\ current_recommendations = <<>>
  /\ analysis = <<>>
  /\ research_variant = "none" /\ research_goals = <<>> /\ research_data = <<>> /\ research_out = <<>>
  /\ env_key = <<>> /\ env_base = <<>> /\ llm = <<>> /\ agent_executor = <<>> /\ current_goal = <<>> /\ last_action = <<>> /\ confidence = 0 /\ plan_out = <<>>
  /\ pc = "not_started" /\ steps_completed = 0 /\ next_actions = <<>>
  /\ research_log = <<>> /\ final_plan = <<>>
  /\ budget_result = <<>>

SpecCycle == InitCycle /\ [][NextCycle]_vars

\* The call goes on as long as it has a step to take.
FairSpecCycle == SpecCycle /\ WF_vars(NextCycle)

(***************************************************************************)
(* Claims about autonomous_planning_cycle.                                 *)
(***************************************************************************)
ResearchCount(city) ==
  Cardinality({i \in DOMAIN research_log : research_log[i] = city})

\* C21: during one autonomous_planning_cycle research_destination is
\* executed at most once for each city, also when the destinations list
\* names a city more than once.
C21_EachCityResearchedOnce ==
  \A i \in DOMAIN research_log : ResearchCount(research_log[i]) <= 1

\* The order of the states of the agent.
StateRank(st) ==
  CASE st = "initialized" -> 0
    [] st = "research_needed" -> 1
    [] st = "research_complete" -> 2
    [] st = "ready_to_plan" -> 3
    [] st = "recommendations_ready" -> 4

NonEmptyDestinations == trip_goals.destinations # <<>>

\* The loop has ended: the call is at or after present_final_plan.
LoopEnded == pc \in {"present", "done", "raised"}

TwoIterations ==
  NonEmptyDestinations =>
    /\ steps_completed <= 2
    /\ steps_completed < MaxSteps
    /\ LoopEnded => steps_completed = 2 /\ state = "recommendations_ready"
    /\ (steps_completed = 1 /\ pc = "test") =>
         /\ Researched(research_cache, trip_goals.destinations)
         /\ current_recommendations = <<>>

StateMovesForward ==
  NonEmptyDestinations => StateRank(state') >= StateRank(state)

AnalyzeAfterResearch ==
  (NonEmptyDestinations /\ state' = "recommendations_ready"
     /\ state # "recommendations_ready")
    => Researched(research_cache, trip_goals.destinations)

\* C24: for a non-empty destinations list autonomous_planning_cycle ends
\* with state recommendations_ready after exactly two iterations of its
\* loop, the first researching and the second analysing, and never reaches
\* max_steps; the state only moves forward through initialized,
\* research_needed, research_complete, ready_to_plan and
\* recommendations_ready, and analyze_and_recommend runs only when every
\* destination is in the research cache.
C24_TwoIterationsToRecommendations ==
  /\ [](TwoIterations)
  /\ [][StateMovesForward /\ AnalyzeAfterResearch]_vars
  /\ (NonEmptyDestinations => <>(LoopEnded /\ pc # "present"))

C24_Witness ==
  /\ pc = "done"
  /\ Len(trip_goals.destinations) = 3
  /\ steps_completed = 2
  /\ state = "recommendations_ready"
  /\ Len(research_log) = 3
  /\ Len(current_recommendations) = 3

\* C25: autonomous_planning_cycle raises for no destinations list, the
\* empty list included: present_final_plan prints the plan and the budget
\* analysis whenever the loop has ended.
C25_CycleNeverRaises == pc # "raised"

(***************************************************************************)
(* Which goals a planning cycle completes.                                 *)
(***************************************************************************)
NewlyCompleted == {i \in 1..Len(goals) : ~goals[i].completed /\ goals'[i].completed}

\* C23: a goal is marked completed only by a planning cycle that executed,
\* with success, the action planned for that goal; no cycle completes a goal
\* other than the one it planned for.
C23_OnlyThePlannedGoalCompletes ==
  [][\A i \in NewlyCompleted :
       /\ ret'.op = "run_planning_cycle"
       /\ ret'.kind = "success"
       /\ i = NextGoal(goals)]_vars


(***************************************************************************)
(* The demonstration of BasicAgent: goals of the four mapped types with    *)
(* the parameters of the demonstration, the tools their actions need, and  *)
(* then the loop                                                           *)
(*   for cycle in range(5): result = run_planning_cycle(); break at        *)
(*   "All goals completed".                                                *)
(* Every call of the loop that plans an action leaves one memory entry,    *)
(* its tool being registered, so Len(memory) is the number of calls made.  *)
(***************************************************************************)
MaxDemoGoals == 2

\* for cycle in range(5)
DemoCycles == 5

DemoParameters(goal_type) ==
  CASE goal_type = "research_destination" ->
         <<Item("destination", Some("Rome")), Item("duration", Num(14))>>
    [] goal_type = "plan_budget" ->
         <<Item("total_budget", Num(3000)), Item("duration", Num(14))>>
    [] goal_type = "book_flight" ->
         <<Item("destination", Some("Rome")), Item("dates", Some("June 15-29"))>>
    [] goal_type = "find_accommodation" ->
         <<Item("destination", Some("Rome")), Item("duration", Num(14))>>

MappedTypes ==
  {"research_destination", "plan_budget", "book_flight", "find_accommodation"}
DemoPriorities == {1, 3}

\* The registrations of the demonstration, and a search for hotel_api.
DemoTools ==
  { <<"web_search", "simple_search">>, <<"budget_calculator", "budget_calculator">>,
    <<"flight_api", "flight_search">>, <<"hotel_api", "simple_search">> }

\* The tool of every goal's action is registered.
NeededToolsRegistered ==
  \A i \in 1..Len(goals) :
    CreateActionForGoal(goals[i]).tool_needed[1] \in DOMAIN tools

LoopStarted == ret.op = "run_planning_cycle"

\* The loop has left by its break.
LoopBroken == LoopStarted /\ ret.kind = "all_completed"

DemoCycle(t) ==
  /\ NeededToolsRegistered
  /\ Len(memory) < DemoCycles
  /\ ~LoopBroken
  /\ RunPlanningCycle(t)

NextDemo ==
  \/ \E ty \in MappedTypes, pr \in DemoPriorities :
       /\ ~LoopStarted
       /\ Len(goals) < MaxDemoGoals
       /\ AddGoal(ty, DemoParameters(ty), pr)
  \/ \E tool \in DemoTools : ~LoopStarted /\ AddTool(tool[1], tool[2])
  \/ \E t \in LaterTimestamps(memory) : DemoCycle(t)

InitDemo ==
  /\ goals = <<>> /\ memory = <<>> /\ tools = <<>>
  /\ ret = NothingReturned("init")
  /\ variant = "none" /\ total_budget = 0 /\ allocated = <<>> /\ spent = <<>>
  /\ expenses = <<>> /\ alerts = <<>> /\ analyses = 0 /\ out = <<>>
  /\ trip_goals = <<>> /\ research_cache = <<>> /\ state = "none" /\ current_recommendations = <<>> /\ analysis = <<>>
  /\ research_variant = "none" /\ research_goals = <<>> /\ research_data = <<>> /\ research_out = <<>>
  /\ env_key = <<>> /\ env_base = <<>> /\ llm = <<>> /\ agent_executor = <<>> /\ current_goal = <<>> /\ last_action = <<>> /\ confidence = 0 /\ plan_out = <<>>
  /\ pc = "none" /\ steps_completed = 0 /\ next_actions = <<>> /\ research_log = <<>> /\ final_plan = <<>>
  /\ budget_result = <<>>

SpecDemo == InitDemo /\ [][NextDemo]_vars

\* The loop makes its next call as long as it has one to make.
FairSpecDemo ==
  SpecDemo /\ WF_vars(\E t \in LaterTimestamps(memory) : DemoCycle(t))

AllGoalsCompleted == \A i \in 1..Len(goals) : goals[i].completed

\* C22: with the tool of every goal's action registered and never raising,
\* the repeated run_planning_cycle calls come to mark every goal completed
\* and to return the "All goals completed" message.
C22_EveryGoalEventuallyCompleted ==
  [](LoopStarted => <>(AllGoalsCompleted /\ LoopBroken))
====
